---------------------------- MODULE Spec2Model ----------------------------
(***************************************************************************)
(* A model of ilmtest-stats' core library: the secret/token subsystem      *)
(* (src/src/lib/csv.ts, lines 57-160, the module the tests import as       *)
(* './security') and the compression codec (src/unnamed/part_006, the      *)
(* module imported as './compression').                                    *)
(*                                                                         *)
(* JavaScript strings are sequences of UTF-16 code units (0..65535), a     *)
(* Buffer is a sequence of bytes (0..255).  Conversions between the two    *)
(* (utf8, hex, base64, base64url) are computed the way Node computes them. *)
(* The primitives of node:crypto and node:zlib are library code; they are  *)
(* modelled ideally: see hkdfSync, gcmKeystream, gcmTag and                *)
(* brotliCompressSync.                                                     *)
(***************************************************************************)
EXTENDS Integers, Sequences, FiniteSets, TLC

VARIABLES
    KEY,      \* csv.ts:69  the singleton key object, or NULL
    env,      \* process.env.ENCRYPTION_SECRET (a string, or Undefined)
    issued,   \* history: the tokens encrypt has returned, with plaintext and nonce
    last,     \* history: the last call, its argument and its outcome
    cin,      \* codec: the input of the last codec call
    cout      \* codec: what the round trip of cin returned

vars == <<KEY, env, issued, last, cin, cout>>

-----------------------------------------------------------------------------
(* Bounds of the model. *)

\* the number of tokens one behaviour may ask encrypt for
MaxTokens == 2

-----------------------------------------------------------------------------
(* Generic helpers. *)

Min(a, b) == IF a < b THEN a ELSE b

Max(a, b) == IF a > b THEN a ELSE b

\* s[a..b] with the bounds clamped to the sequence, empty when a > b
\* (Buffer.subarray / String.slice, on 1-based inclusive bounds)
Slice(s, a, b) ==
    IF Max(a, 1) > Min(b, Len(s)) THEN <<>> ELSE SubSeq(s, Max(a, 1), Min(b, Len(s)))

\* bitwise exclusive or of two bytes: the bit of weight w, and the eight bits
XorBit(a, b, w) == (((a \div w) + (b \div w)) % 2) * w

Xor(a, b) ==
    XorBit(a, b, 1) + XorBit(a, b, 2) + XorBit(a, b, 4) + XorBit(a, b, 8)
    + XorBit(a, b, 16) + XorBit(a, b, 32) + XorBit(a, b, 64) + XorBit(a, b, 128)

\* the JavaScript values undefined and null, kept apart from every string
Undefined == <<-1>>
NULL == [kind |-> "null"]
NoError == "none"

-----------------------------------------------------------------------------
(* Strings: UTF-16 code units, and the encodings Buffer implements. *)

IsHighSurrogate(c) == c >= 55296 /\ c <= 56319
IsLowSurrogate(c)  == c >= 56320 /\ c <= 57343

\* the concatenation of a sequence of sequences, taken by halves
RECURSIVE joinRange(_, _, _)
joinRange(ss, lo, hi) ==
    IF lo > hi THEN <<>>
    ELSE IF lo = hi THEN ss[lo]
    ELSE joinRange(ss, lo, (lo + hi) \div 2) \o joinRange(ss, (lo + hi) \div 2 + 1, hi)

join(ss) == joinRange(ss, 1, Len(ss))

\* Buffer.from(s, 'utf8') / cipher.update(s, 'utf8'), the bytes of the code unit
\* at i: a surrogate pair gives four bytes at its high half and none at its low
\* half, an unpaired surrogate is encoded as U+FFFD (EF BF BD)
utf8Bytes(s, i) ==
    LET c == s[i] IN
    CASE c < 128 -> <<c>>
      [] c >= 128 /\ c < 2048 -> <<192 + (c \div 64), 128 + (c % 64)>>
      [] IsHighSurrogate(c) ->
            IF i < Len(s) /\ IsLowSurrogate(s[i + 1])
            THEN LET cp == 65536 + (c - 55296) * 1024 + (s[i + 1] - 56320) IN
                 << 240 + (cp \div 262144),
                    128 + ((cp \div 4096) % 64),
                    128 + ((cp \div 64) % 64),
                    128 + (cp % 64) >>
            ELSE <<239, 191, 189>>
      [] IsLowSurrogate(c) ->
            IF i > 1 /\ IsHighSurrogate(s[i - 1]) THEN <<>> ELSE <<239, 191, 189>>
      [] OTHER -> << 224 + (c \div 4096),
                     128 + ((c \div 64) % 64),
                     128 + (c % 64) >>

utf8Encode(s) == join([i \in 1..Len(s) |-> utf8Bytes(s, i)])

IsCont(b) == b >= 128 /\ b <= 191

\* the length of the well-formed sequence that starts at byte i, 1 when none
\* does
utf8Length(b, i) ==
    LET x == b[i]
        n == Len(b)
    IN  CASE x >= 194 /\ x <= 223 /\ i + 1 <= n /\ IsCont(b[i + 1]) -> 2
          [] x >= 224 /\ x <= 239 /\ i + 2 <= n /\ IsCont(b[i + 1]) /\ IsCont(b[i + 2])
             /\ LET cp == (x - 224) * 4096 + (b[i + 1] - 128) * 64 + (b[i + 2] - 128)
                IN  cp >= 2048 /\ ~(cp >= 55296 /\ cp <= 57343) -> 3
          [] x >= 240 /\ x <= 244 /\ i + 3 <= n
             /\ IsCont(b[i + 1]) /\ IsCont(b[i + 2]) /\ IsCont(b[i + 3])
             /\ LET cp == (x - 240) * 262144 + (b[i + 1] - 128) * 4096
                          + (b[i + 2] - 128) * 64 + (b[i + 3] - 128)
                IN  cp >= 65536 /\ cp <= 1114111 -> 4
          [] OTHER -> 1

\* byte i belongs to a sequence that starts before it
utf8Continues(b, i) == \E k \in 1..3 : i - k >= 1 /\ utf8Length(b, i - k) > k

\* buf.toString('utf8'), the code units decoded at byte i: a byte that starts
\* no well-formed sequence decodes to U+FFFD (65533) and decoding resumes at the
\* next byte
utf8Units(b, i) ==
    LET x == b[i]
        len == utf8Length(b, i)
    IN  IF utf8Continues(b, i) THEN <<>>
        ELSE CASE len = 1 -> IF x < 128 THEN <<x>> ELSE <<65533>>
               [] len = 2 -> <<(x - 192) * 64 + (b[i + 1] - 128)>>
               [] len = 3 -> <<(x - 224) * 4096 + (b[i + 1] - 128) * 64 + (b[i + 2] - 128)>>
               [] OTHER ->
                    LET cp == (x - 240) * 262144 + (b[i + 1] - 128) * 4096
                              + (b[i + 2] - 128) * 64 + (b[i + 3] - 128)
                    IN  <<55296 + ((cp - 65536) \div 1024), 56320 + ((cp - 65536) % 1024)>>

utf8Decode(b) == join([i \in 1..Len(b) |-> utf8Units(b, i)])

\* String.prototype.trim: WhiteSpace and LineTerminator code units
IsWhiteSpace(c) ==
    c \in {9, 10, 11, 12, 13, 32, 160, 5760, 8232, 8233, 8239, 8287, 12288, 65279}
    \/ (c >= 8192 /\ c <= 8202)

RECURSIVE trimStart(_)
trimStart(s) ==
    IF s # <<>> /\ IsWhiteSpace(Head(s)) THEN trimStart(Tail(s)) ELSE s

RECURSIVE trimEnd(_)
trimEnd(s) ==
    IF s # <<>> /\ IsWhiteSpace(s[Len(s)]) THEN trimEnd(Slice(s, 1, Len(s) - 1)) ELSE s

trim(s) == trimEnd(trimStart(s))

\* s.replace(/x/g, y) for one code unit x
replaceAll(s, x, y) == [i \in 1..Len(s) |-> IF s[i] = x THEN y ELSE s[i]]

\* s.padEnd(n, c)
padEnd(s, n, c) == s \o [i \in 1..(IF n > Len(s) THEN n - Len(s) ELSE 0) |-> c]

\* s.replace(/=+$/g, '')
RECURSIVE stripPadding(_)
stripPadding(s) ==
    IF s # <<>> /\ s[Len(s)] = 61 THEN stripPadding(Slice(s, 1, Len(s) - 1)) ELSE s

\* /^[0-9a-fA-F]+$/.test(s)
IsHexDigit(c) == (c >= 48 /\ c <= 57) \/ (c >= 65 /\ c <= 70) \/ (c >= 97 /\ c <= 102)
IsHexString(s) == s # <<>> /\ \A i \in 1..Len(s) : IsHexDigit(s[i])

hexValue(c) == IF c <= 57 THEN c - 48 ELSE IF c <= 70 THEN c - 55 ELSE c - 87

\* Buffer.from(s, 'hex') for a string of hex digits of even length
fromHex(s) ==
    [i \in 1..(Len(s) \div 2) |-> 16 * hexValue(s[2 * i - 1]) + hexValue(s[2 * i])]

\* the base64 alphabet: the code unit of a sextet ...
base64Char(i) ==
    IF i < 26 THEN 65 + i
    ELSE IF i < 52 THEN 97 + (i - 26)
    ELSE IF i < 62 THEN 48 + (i - 52)
    ELSE IF i = 62 THEN 43 ELSE 47

\* ... and the sextet of a code unit, -1 for a code unit outside the alphabet.
\* Node's decoder takes '-' and '_' like '+' and '/'.
unbase64(c) ==
    IF c >= 65 /\ c <= 90 THEN c - 65
    ELSE IF c >= 97 /\ c <= 122 THEN c - 97 + 26
    ELSE IF c >= 48 /\ c <= 57 THEN c - 48 + 52
    ELSE IF c = 43 \/ c = 45 THEN 62
    ELSE IF c = 47 \/ c = 95 THEN 63
    ELSE -1

\* buf.toString('base64'), padded with '='
toBase64(b) ==
    LET n == Len(b)
        byte(i) == IF i <= n THEN b[i] ELSE 0
    IN  [j \in 1..(4 * ((n + 2) \div 3)) |->
            LET g == 3 * ((j - 1) \div 4)
                r == (j - 1) % 4
            IN  IF r = 0 THEN base64Char(byte(g + 1) \div 4)
                ELSE IF r = 1
                     THEN base64Char((byte(g + 1) % 4) * 16 + (byte(g + 2) \div 16))
                ELSE IF r = 2
                     THEN IF g + 2 > n THEN 61
                          ELSE base64Char((byte(g + 2) % 16) * 4 + (byte(g + 3) \div 64))
                ELSE IF g + 3 > n THEN 61 ELSE base64Char(byte(g + 3) % 64)]

\* Node's lenient decoder: code units outside the alphabet are skipped, the
\* first '=' ends the data
base64Sextets(s) ==
    LET stops == {i \in 1..Len(s) : s[i] = 61}
        end == IF stops = {} THEN Len(s)
               ELSE (CHOOSE i \in stops : \A j \in stops : i <= j) - 1
        data == SelectSeq(SubSeq(s, 1, end), LAMBDA c : unbase64(c) >= 0)
    IN  [i \in 1..Len(data) |-> unbase64(data[i])]

\* four sextets give three bytes; three give two, two give one and a single
\* sextet left over gives none
sextetsToBytes(q) ==
    [j \in 1..((6 * Len(q)) \div 8) |->
        LET g == 4 * ((j - 1) \div 3)
            r == (j - 1) % 3
        IN  IF r = 0 THEN q[g + 1] * 4 + (q[g + 2] \div 16)
            ELSE IF r = 1 THEN (q[g + 2] % 16) * 16 + (q[g + 3] \div 4)
            ELSE (q[g + 3] % 4) * 64 + q[g + 4]]

\* Buffer.from(s, 'base64'); it never throws on a string
fromBase64(s) == sextetsToBytes(base64Sextets(s))

-----------------------------------------------------------------------------
(* csv.ts, lines 57-160: the secret/token subsystem. *)

VERSION == 1
IV_LEN == 12
TAG_LEN == 16
AAD == <<VERSION>>

\* Buffer.from('aes-gcm:content-key:v1') and Buffer.from('security.ts:hkdf-salt:v1')
HKDF_INFO == <<97, 101, 115, 45, 103, 99, 109, 58, 99, 111, 110, 116, 101, 110,
               116, 45, 107, 101, 121, 58, 118, 49>>
HKDF_SALT == <<115, 101, 99, 117, 114, 105, 116, 121, 46, 116, 115, 58, 104, 107,
               100, 102, 45, 115, 97, 108, 116, 58, 118, 49>>

MissingSecret == "ENCRYPTION_SECRET is not set"
MalformedToken == "Malformed token"
UnsupportedTokenVersion == "Unsupported token version"
AuthenticationFailed == "Unsupported state or unable to authenticate data"

\* A digest of a byte sequence, the stand-in for the hash functions inside
\* node:crypto: h(<<>>) = 7 and h(b \o <<x>>) = (33 * h(b) + x) % 256, so that
\* changing one byte of the sequence changes the digest.  As 33^k % 256 is
\* 1 + 32 * (k % 8), h(b) is 7 * 33^n plus the sum of b[i] * 33^(n - i), and
\* the sum is taken by halves.
RECURSIVE digestOf(_, _, _)
digestOf(b, lo, hi) ==
    IF lo > hi THEN 0
    ELSE IF lo = hi THEN (b[lo] * (1 + 32 * ((Len(b) - lo) % 8))) % 256
    ELSE (digestOf(b, lo, (lo + hi) \div 2) + digestOf(b, (lo + hi) \div 2 + 1, hi)) % 256

digest(b) == (7 * (1 + 32 * (Len(b) % 8)) + digestOf(b, 1, Len(b))) % 256

\* hkdfSync('sha256', ikm, salt, info, length): a key of `length` bytes that is a
\* function of the three inputs
hkdfSync(ikm, salt, info, length) ==
    LET d == digest(salt \o info \o ikm)
    IN  [i \in 1..length |-> (d + 37 * i) % 256]

createSecretKey(keyBuf) == [kind |-> "KeyObject", bytes |-> keyBuf]

\* AES-256 in counter mode: the key stream of (key, iv) ...
gcmKeystream(key, iv, n) ==
    LET d == digest(key.bytes \o iv)
    IN  [i \in 1..n |-> (d + 101 * i) % 256]

\* ... xor-ed onto the data (cipher.update / decipher.update)
gcmCrypt(key, iv, data) ==
    LET ks == gcmKeystream(key, iv, Len(data))
    IN  [i \in 1..Len(data) |-> Xor(data[i], ks[i])]

\* The 16-byte authentication tag of (key, iv, aad, ciphertext) (cipher.getAuthTag).
\* An ideal tag: two inputs that differ in the key (for the keys of this model),
\* in one byte of the iv or in one byte of the ciphertext never share a tag.
gcmTag(key, iv, aad, ciphertext) ==
    <<key.bytes[1], digest(aad), Len(ciphertext) % 256, digest(ciphertext)>> \o iv

toBuffer(x) == x

b64urlEncode(b) == stripPadding(replaceAll(replaceAll(toBase64(b), 43, 45), 47, 95))

b64urlDecode(s) ==
    fromBase64(padEnd(replaceAll(replaceAll(s, 45, 43), 95, 47),
                      ((Len(s) + 3) \div 4) * 4, 61))

parseSecret(s) ==
    IF IsHexString(s) /\ Len(s) % 2 = 0 THEN fromHex(s)
    ELSE LET maybeB64 == replaceAll(replaceAll(s, 45, 43), 95, 47)
             b == fromBase64(maybeB64)
         IN  IF Len(b) > 0 THEN b ELSE utf8Encode(s)

\* initSecrets without the early return of line 72
initSecrets_reinit(K, encryptionSecret, envSecret) ==
    LET arg == IF encryptionSecret = Undefined THEN envSecret ELSE encryptionSecret
        raw == trim(IF arg = Undefined THEN <<>> ELSE arg)
        secret == parseSecret(raw)
        keyBuf == IF Len(secret) = 32 THEN secret
                  ELSE toBuffer(hkdfSync(secret, HKDF_SALT, HKDF_INFO, 32))
    IN  IF raw = <<>> THEN [KEY |-> K, err |-> MissingSecret]
        ELSE [KEY |-> createSecretKey(keyBuf), err |-> NoError]

\* initSecrets without the trim of line 76
initSecrets_noTrim(K, encryptionSecret, envSecret) ==
    LET arg == IF encryptionSecret = Undefined THEN envSecret ELSE encryptionSecret
        raw == IF arg = Undefined THEN <<>> ELSE arg
        secret == parseSecret(raw)
        keyBuf == IF Len(secret) = 32 THEN secret
                  ELSE toBuffer(hkdfSync(secret, HKDF_SALT, HKDF_INFO, 32))
    IN  IF K # NULL THEN [KEY |-> K, err |-> NoError]
        ELSE IF raw = <<>> THEN [KEY |-> K, err |-> MissingSecret]
        ELSE [KEY |-> createSecretKey(keyBuf), err |-> NoError]

\* initSecrets(encryptionSecret = process.env.ENCRYPTION_SECRET) with KEY = K:
\* the key afterwards and the error thrown
initSecrets(K, encryptionSecret, envSecret) ==
    LET arg == IF encryptionSecret = Undefined THEN envSecret ELSE encryptionSecret
        raw == trim(IF arg = Undefined THEN <<>> ELSE arg)
        secret == parseSecret(raw)
        keyBuf == IF Len(secret) = 32 THEN secret
                  ELSE toBuffer(hkdfSync(secret, HKDF_SALT, HKDF_INFO, 32))
    IN  IF K # NULL THEN [KEY |-> K, err |-> NoError]
        ELSE IF raw = <<>> THEN [KEY |-> K, err |-> MissingSecret]
        ELSE [KEY |-> createSecretKey(keyBuf), err |-> NoError]

\* encrypt without the initSecrets() of line 91: createCipheriv throws a
\* TypeError on a null key
encrypt_noInit(K, envSecret, plaintext, iv) ==
    LET c == gcmCrypt(K, iv, utf8Encode(plaintext))
        tag == gcmTag(K, iv, AAD, c)
    IN  IF K = NULL
        THEN [KEY |-> K, err |-> "TypeError", value |-> Undefined]
        ELSE [KEY |-> K, err |-> NoError,
              value |-> b64urlEncode(<<VERSION>> \o iv \o c \o tag)]

\* encrypt with a constant iv instead of randomBytes(IV_LEN)
encrypt_constantIv(K, envSecret, plaintext, iv) ==
    LET init == initSecrets(K, Undefined, envSecret)
        iv0 == [i \in 1..IV_LEN |-> 0]
        c == gcmCrypt(init.KEY, iv0, utf8Encode(plaintext))
        tag == gcmTag(init.KEY, iv0, AAD, c)
    IN  IF init.err # NoError
        THEN [KEY |-> init.KEY, err |-> init.err, value |-> Undefined]
        ELSE [KEY |-> init.KEY, err |-> NoError,
              value |-> b64urlEncode(<<VERSION>> \o iv0 \o c \o tag)]

\* encrypt(plaintext), iv being what randomBytes(IV_LEN) returns
encrypt(K, envSecret, plaintext, iv) ==
    LET init == initSecrets(K, Undefined, envSecret)
        c == gcmCrypt(init.KEY, iv, utf8Encode(plaintext))
        tag == gcmTag(init.KEY, iv, AAD, c)
    IN  IF init.err # NoError
        THEN [KEY |-> init.KEY, err |-> init.err, value |-> Undefined]
        ELSE [KEY |-> init.KEY, err |-> NoError,
              value |-> b64urlEncode(<<VERSION>> \o iv \o c \o tag)]

\* the outcomes of decrypt
thrown(K, e, reached) ==
    [KEY |-> K, err |-> e, value |-> Undefined, authTried |-> reached]

\* lines 123-129: the tag verified, then the plaintext decoded
authenticated(K, iv, ciphertext, tag) ==
    IF tag # gcmTag(K, iv, AAD, ciphertext)
    THEN thrown(K, AuthenticationFailed, TRUE)
    ELSE [KEY |-> K, err |-> NoError,
          value |-> utf8Decode(gcmCrypt(K, iv, ciphertext)), authTried |-> TRUE]

\* decrypt reading the iv from offset 0 instead of offset 1
decrypt_ivFromStart(K, envSecret, token) ==
    LET init == initSecrets(K, Undefined, envSecret)
        buf == b64urlDecode(token)
        body == Slice(buf, 2 + IV_LEN, Len(buf))
    IN  IF init.err # NoError THEN thrown(init.KEY, init.err, FALSE)
        ELSE IF Len(buf) < 1 + IV_LEN + TAG_LEN THEN thrown(init.KEY, MalformedToken, FALSE)
        ELSE IF buf[1] # VERSION THEN thrown(init.KEY, UnsupportedTokenVersion, FALSE)
        ELSE IF Len(body) < TAG_LEN THEN thrown(init.KEY, MalformedToken, FALSE)
        ELSE authenticated(init.KEY, Slice(buf, 1, IV_LEN),
                           Slice(body, 1, Len(body) - TAG_LEN),
                           Slice(body, Len(body) - TAG_LEN + 1, Len(body)))

\* decrypt without the version check of line 113
decrypt_noVersionCheck(K, envSecret, token) ==
    LET init == initSecrets(K, Undefined, envSecret)
        buf == b64urlDecode(token)
        body == Slice(buf, 2 + IV_LEN, Len(buf))
    IN  IF init.err # NoError THEN thrown(init.KEY, init.err, FALSE)
        ELSE IF Len(buf) < 1 + IV_LEN + TAG_LEN THEN thrown(init.KEY, MalformedToken, FALSE)
        ELSE IF Len(body) < TAG_LEN THEN thrown(init.KEY, MalformedToken, FALSE)
        ELSE authenticated(init.KEY, Slice(buf, 2, 1 + IV_LEN),
                           Slice(body, 1, Len(body) - TAG_LEN),
                           Slice(body, Len(body) - TAG_LEN + 1, Len(body)))

\* decrypt checking the version only after the tag has verified
decrypt_authFirst(K, envSecret, token) ==
    LET init == initSecrets(K, Undefined, envSecret)
        buf == b64urlDecode(token)
        body == Slice(buf, 2 + IV_LEN, Len(buf))
        r == authenticated(init.KEY, Slice(buf, 2, 1 + IV_LEN),
                           Slice(body, 1, Len(body) - TAG_LEN),
                           Slice(body, Len(body) - TAG_LEN + 1, Len(body)))
    IN  IF init.err # NoError THEN thrown(init.KEY, init.err, FALSE)
        ELSE IF Len(buf) < 1 + IV_LEN + TAG_LEN THEN thrown(init.KEY, MalformedToken, FALSE)
        ELSE IF Len(body) < TAG_LEN THEN thrown(init.KEY, MalformedToken, FALSE)
        ELSE IF r.err # NoError THEN r
        ELSE IF buf[1] # VERSION THEN thrown(init.KEY, UnsupportedTokenVersion, TRUE)
        ELSE r

\* decrypt checking the version before the length
decrypt_versionFirst(K, envSecret, token) ==
    LET init == initSecrets(K, Undefined, envSecret)
        buf == b64urlDecode(token)
        body == Slice(buf, 2 + IV_LEN, Len(buf))
    IN  IF init.err # NoError THEN thrown(init.KEY, init.err, FALSE)
        ELSE IF buf = <<>> \/ buf[1] # VERSION
             THEN thrown(init.KEY, UnsupportedTokenVersion, FALSE)
        ELSE IF Len(buf) < 1 + IV_LEN + TAG_LEN THEN thrown(init.KEY, MalformedToken, FALSE)
        ELSE IF Len(body) < TAG_LEN THEN thrown(init.KEY, MalformedToken, FALSE)
        ELSE authenticated(init.KEY, Slice(buf, 2, 1 + IV_LEN),
                           Slice(body, 1, Len(body) - TAG_LEN),
                           Slice(body, Len(body) - TAG_LEN + 1, Len(body)))

\* decrypt(token): the key afterwards, the error thrown or the value returned,
\* and whether decipher.final (the tag verification) was reached
decrypt(K, envSecret, token) ==
    LET init == initSecrets(K, Undefined, envSecret)
        buf == b64urlDecode(token)
        version == buf[1]
        iv == Slice(buf, 2, 1 + IV_LEN)
        body == Slice(buf, 2 + IV_LEN, Len(buf))
        ciphertext == Slice(body, 1, Len(body) - TAG_LEN)
        tag == Slice(body, Len(body) - TAG_LEN + 1, Len(body))
        fail(e, reached) == [KEY |-> init.KEY, err |-> e, value |-> Undefined,
                             authTried |-> reached]
    IN  IF init.err # NoError THEN fail(init.err, FALSE)
        ELSE IF Len(buf) < 1 + IV_LEN + TAG_LEN THEN fail(MalformedToken, FALSE)
        ELSE IF version # VERSION THEN fail(UnsupportedTokenVersion, FALSE)
        ELSE IF Len(body) < TAG_LEN THEN fail(MalformedToken, FALSE)
        ELSE IF tag # gcmTag(init.KEY, iv, AAD, ciphertext)
             THEN fail(AuthenticationFailed, TRUE)
        ELSE [KEY |-> init.KEY, err |-> NoError,
              value |-> utf8Decode(gcmCrypt(init.KEY, iv, ciphertext)),
              authTried |-> TRUE]

-----------------------------------------------------------------------------
(* The inputs the callers hand in. *)

\* '41424344' (hex), 'QUJDRA' (base64url), 'plain text secret', '!!', ' \t'
\* (blank), ' 41424344 ', and 64 hex digits (a 32-byte key)
SecretHex == <<52, 49, 52, 50, 52, 51, 52, 52>>
SecretB64 == <<81, 85, 74, 68, 82, 65>>
SecretPlain == <<112, 108, 97, 105, 110, 32, 116, 101, 120, 116, 32,
                 115, 101, 99, 114, 101, 116>>
SecretBang == <<33, 33>>
SecretBlank == <<32, 9>>
SecretPadded == <<32>> \o SecretHex \o <<32>>
SecretKey32 == [i \in 1..64 |-> IF i % 2 = 0 THEN 70 ELSE 48]

\* the secrets a caller passes to initSecrets
Secrets == {Undefined, <<>>, SecretBlank, SecretHex, SecretPlain}

\* what process.env.ENCRYPTION_SECRET may hold when the process starts
EnvSecrets == {Undefined, SecretBlank, SecretBang}

\* 'hi', 'e-acute U+1F600' (a surrogate pair), '' and an unpaired high surrogate
Plaintexts == {<<104, 105>>, <<233, 55357, 56832>>, <<>>, <<55357>>}

\* what randomBytes(IV_LEN) may return
Nonces == {[i \in 1..IV_LEN |-> 0], [i \in 1..IV_LEN |-> (17 * i) % 256],
           [i \in 1..IV_LEN |-> 255]}

\* a changed byte is the old one plus one of these, modulo 256
FlipDeltas == {1, 255}

\* tokens that encrypt never returned: 'bad-token', '', and the encodings of
\* 29 and 28 bytes with version 2, of 29 bytes with version 1, of 1 byte
BadToken == <<98, 97, 100, 45, 116, 111, 107, 101, 110>>
ForeignTokens ==
    {BadToken, <<>>,
     b64urlEncode(<<2>> \o [i \in 1..28 |-> 255]),
     b64urlEncode(<<2>> \o [i \in 1..27 |-> 0]),
     b64urlEncode(<<VERSION>> \o [i \in 1..28 |-> 0]),
     b64urlEncode(<<VERSION>>)}

\* the part of the token layout a byte position lies in
Region(buf, pos) ==
    IF pos = 1 THEN "version"
    ELSE IF pos <= 1 + IV_LEN THEN "nonce"
    ELSE IF pos <= Len(buf) - TAG_LEN THEN "ciphertext"
    ELSE "tag"

-----------------------------------------------------------------------------
(* The calls.  `last` is the history of the last call: its argument, where *)
(* a token handed to decrypt came from, the outcome, and whether the call  *)
(* before it failed with MissingSecret.                                    *)

NoCall == [op |-> "none", arg |-> <<>>, kind |-> "none", region |-> "none",
           decodedLen |-> 0, version |-> 0, tokenKey |-> NULL,
           err |-> NoError, value |-> Undefined, authTried |-> FALSE,
           keyBefore |-> NULL, afterMissing |-> FALSE]

InitSecrets(s) ==
    LET r == initSecrets(KEY, s, env) IN
    /\ KEY' = r.KEY
    /\ last' = [NoCall EXCEPT !.op = "initSecrets", !.arg = s, !.err = r.err,
                              !.keyBefore = KEY,
                              !.afterMissing = (last.err = MissingSecret)]
    /\ UNCHANGED <<env, issued, cin, cout>>

\* encrypt(p).  randomBytes is an ideal source: within one process it never
\* returns a nonce it has returned before.
Encrypt(p, iv) ==
    LET r == encrypt(KEY, env, p, iv) IN
    /\ Len(issued) < MaxTokens
    /\ \A j \in 1..Len(issued) : issued[j].iv # iv
    /\ KEY' = r.KEY
    /\ issued' = IF r.err = NoError
                 THEN Append(issued, [plaintext |-> p, iv |-> iv, token |-> r.value,
                                      key |-> r.KEY])
                 ELSE issued
    /\ last' = [NoCall EXCEPT !.op = "encrypt", !.arg = p, !.err = r.err,
                              !.value = r.value, !.keyBefore = KEY,
                              !.afterMissing = (last.err = MissingSecret)]
    /\ UNCHANGED <<env, cin, cout>>

\* decrypt(token); e is the history of the token encrypt returned, from which
\* the caller made `token`
Decrypt(token, kind, region, e) ==
    LET r == decrypt(KEY, env, token)
        buf == b64urlDecode(token)
    IN
    /\ KEY' = r.KEY
    /\ last' = [NoCall EXCEPT !.op = "decrypt", !.arg = e.plaintext, !.kind = kind,
                              !.region = region, !.decodedLen = Len(buf),
                              !.version = IF buf = <<>> THEN -1 ELSE buf[1],
                              !.tokenKey = e.key,
                              !.err = r.err, !.value = r.value,
                              !.authTried = r.authTried, !.keyBefore = KEY,
                              !.afterMissing = (last.err = MissingSecret)]
    /\ UNCHANGED <<env, issued, cin, cout>>

DecryptIssued(i) == Decrypt(issued[i].token, "issued", "none", issued[i])

\* one byte of the decoded token changed, the token re-encoded
DecryptFlipped(i, pos, d) ==
    LET buf == b64urlDecode(issued[i].token)
        flipped == [buf EXCEPT ![pos] = (buf[pos] + d) % 256]
    IN  /\ pos <= Len(buf)
        /\ Decrypt(b64urlEncode(flipped), "flipped", Region(buf, pos), issued[i])

\* the decoded token cut to its first n bytes, re-encoded
DecryptTruncated(i, n) ==
    LET buf == b64urlDecode(issued[i].token)
    IN  /\ n < Len(buf)
        /\ Decrypt(b64urlEncode(Slice(buf, 1, n)), "truncated", "none", issued[i])

DecryptForeign(t) ==
    Decrypt(t, "foreign", "none", [plaintext |-> <<>>, key |-> NULL])

-----------------------------------------------------------------------------
(* Spec: one process; its callers call initSecrets, encrypt and decrypt in *)
(* any order.                                                              *)

Init ==
    /\ KEY = NULL
    /\ env \in EnvSecrets
    /\ issued = <<>>
    /\ last = NoCall
    /\ cin = <<>>
    /\ cout = <<>>

Next ==
    \/ \E s \in Secrets : InitSecrets(s)
    \/ \E p \in {<<104, 105>>, <<>>}, iv \in Nonces : Encrypt(p, iv)
    \/ \E i \in 1..Len(issued) : DecryptIssued(i)
    \/ \E t \in {BadToken, b64urlEncode(<<2>> \o [i \in 1..28 |-> 255])} :
          DecryptForeign(t)

Spec == Init /\ [][Next]_vars

-----------------------------------------------------------------------------
(* SpecToken: decrypt applied once to a token.  A writer process keyed     *)
(* with one secret has encrypted a plaintext; the reader process, whose    *)
(* callers have called initSecrets at most once, is handed the token as    *)
(* it is, with one byte changed, or cut short.                             *)

WriterSecrets == {SecretHex, SecretKey32}

\* the longest decoded token of the model: its plaintext has 6 bytes
MaxTokenBytes == 1 + IV_LEN + 6 + TAG_LEN

TokenInit ==
    /\ env \in EnvSecrets
    /\ \E s \in {Undefined, SecretHex, SecretB64, SecretPlain, SecretKey32} :
          KEY = initSecrets(NULL, s, env).KEY
    /\ \E w \in WriterSecrets, p \in Plaintexts,
          iv \in {[i \in 1..IV_LEN |-> 0], [i \in 1..IV_LEN |-> (17 * i) % 256]} :
          LET r == encrypt(NULL, w, p, iv)
          IN  issued = <<[plaintext |-> p, iv |-> iv, token |-> r.value, key |-> r.KEY]>>
    /\ last = NoCall
    /\ cin = <<>>
    /\ cout = <<>>

Unused == last.op = "none"

TokenIntact == Unused /\ DecryptIssued(1)
TokenFlipped(pos, d) == Unused /\ DecryptFlipped(1, pos, d)
TokenTruncated(n) == Unused /\ DecryptTruncated(1, n)
TokenForeign(t) == Unused /\ DecryptForeign(t)

TokenNext ==
    \/ TokenIntact
    \/ \E pos \in 1..MaxTokenBytes, d \in FlipDeltas : TokenFlipped(pos, d)
    \/ \E n \in 0..(IV_LEN + TAG_LEN) : TokenTruncated(n)
    \/ \E t \in ForeignTokens : TokenForeign(t)

SpecToken == TokenInit /\ [][TokenNext]_vars

-----------------------------------------------------------------------------
(* SpecParse: initSecrets applied once, in a fresh process with no         *)
(* environment secret, to every string of up to MaxSecretLen code units    *)
(* over an alphabet that holds each kind of character parseSecret tells    *)
(* apart, and to the secrets named above.                                  *)

MaxSecretLen == 3

\* '4' and 'a' (hex digits), 'Q' (base64 only), '-' (base64url only), '=',
\* ' ', '!' and e-acute (in no alphabet)
SecretAlphabet == {52, 97, 81, 45, 61, 32, 33, 233}

ParseInputs ==
    UNION {{s \in [1..n -> SecretAlphabet] : TRUE} : n \in 0..MaxSecretLen}
    \cup {SecretHex, SecretB64, SecretPlain, SecretBang, SecretPadded, SecretKey32}

ParseInit ==
    /\ KEY = NULL
    /\ env = Undefined
    /\ issued = <<>>
    /\ \E s \in ParseInputs : last = [NoCall EXCEPT !.arg = s]
    /\ cin = <<>>
    /\ cout = <<>>

ParseSecret == Unused /\ InitSecrets(last.arg)

ParseNext == ParseSecret

SpecParse == ParseInit /\ [][ParseNext]_vars

-----------------------------------------------------------------------------
(* The claims about the secret/token subsystem. *)

\* x is no secret: undefined, or empty after trimming
IsBlank(x) == x = Undefined \/ trim(x) = <<>>

\* C1: under any interleaving of initSecrets, encrypt and decrypt the key is
\* assigned at most once: once KEY is set no call changes it, and every later
\* initSecrets (whatever its argument) returns without error.
C1_KeyAssignedOnce ==
    [][KEY # NULL => /\ KEY' = KEY
                     /\ (last'.op = "initSecrets" => last'.err = NoError)]_vars

\* C1 happens: initSecrets('plain text secret') has returned in a process
\* whose key came from another secret
C1_Witness ==
    /\ last.op = "initSecrets"
    /\ last.arg = SecretPlain
    /\ last.keyBefore # NULL
    /\ last.keyBefore # initSecrets(NULL, SecretPlain, Undefined).KEY

\* a string with no unpaired surrogate
RECURSIVE IsWellFormed(_)
IsWellFormed(s) ==
    IF s = <<>> THEN TRUE
    ELSE IF IsHighSurrogate(s[1])
         THEN Len(s) >= 2 /\ IsLowSurrogate(s[2]) /\ IsWellFormed(Tail(Tail(s)))
    ELSE ~IsLowSurrogate(s[1]) /\ IsWellFormed(Tail(s))

\* s with every unpaired surrogate replaced by U+FFFD (String.toWellFormed)
RECURSIVE ToWellFormed(_)
ToWellFormed(s) ==
    IF s = <<>> THEN <<>>
    ELSE IF IsHighSurrogate(s[1]) /\ Len(s) >= 2 /\ IsLowSurrogate(s[2])
         THEN <<s[1], s[2]>> \o ToWellFormed(Tail(Tail(s)))
    ELSE IF IsHighSurrogate(s[1]) \/ IsLowSurrogate(s[1])
         THEN <<65533>> \o ToWellFormed(Tail(s))
    ELSE <<s[1]>> \o ToWellFormed(Tail(s))

\* decrypt was handed, unchanged, a token encrypted under the key it used
RoundTrip ==
    /\ last.op = "decrypt"
    /\ last.kind = "issued"
    /\ KEY # NULL
    /\ KEY = last.tokenKey

\* C2 as stated: for every plaintext string s and every established key,
\* decrypt(encrypt(s)) returns exactly s.
C2_RoundTripEveryString ==
    RoundTrip => (last.err = NoError /\ last.value = last.arg)

\* C2 amended: decrypt(encrypt(s)) returns s with every unpaired surrogate
\* replaced by U+FFFD, hence exactly s for every s with no unpaired surrogate.
C2_RoundTripWellFormed ==
    RoundTrip => /\ last.err = NoError
                 /\ last.value = ToWellFormed(last.arg)
                 /\ (IsWellFormed(last.arg) => last.value = last.arg)

\* C2 happens: a plaintext with a two-byte character and a surrogate pair has
\* gone through encrypt and decrypt
C2_Witness ==
    RoundTrip /\ last.arg = <<233, 55357, 56832>> /\ last.value = last.arg

\* decrypt was handed a token of encrypt with one byte of the decoded token
\* changed, in a process that has a key
Tampered == last.op = "decrypt" /\ last.kind = "flipped" /\ KEY # NULL

\* C3 as stated: flipping any single byte of a token (version, nonce,
\* ciphertext or tag) makes decrypt raise AuthenticationFailed or
\* MalformedToken, never return a value.
C3_FlipAuthOrMalformed ==
    Tampered => /\ last.err \in {AuthenticationFailed, MalformedToken}
                /\ last.value = Undefined

\* C3 amended: flipping the version byte makes decrypt raise
\* UnsupportedTokenVersion; flipping a byte of the nonce, the ciphertext or the
\* tag makes it raise AuthenticationFailed or MalformedToken; it never returns
\* a value.
C3_FlipRejected ==
    Tampered => /\ last.value = Undefined
                /\ IF last.region = "version"
                   THEN last.err = UnsupportedTokenVersion
                   ELSE last.err \in {AuthenticationFailed, MalformedToken}

\* C3 happens: a ciphertext byte of a token was flipped, the key is the one the
\* token was made with, and decrypt refused it
C3_Witness ==
    /\ Tampered
    /\ last.region = "ciphertext"
    /\ KEY = last.tokenKey
    /\ last.err = AuthenticationFailed

\* C4: with a key established, for a token of at least 29 decoded bytes whose
\* first byte is not 1, decrypt raises UnsupportedTokenVersion whatever the other
\* bytes are, and does not reach the tag verification.
C4_VersionBeforeAuth ==
    (/\ last.op = "decrypt"
     /\ KEY # NULL
     /\ last.decodedLen >= 1 + IV_LEN + TAG_LEN
     /\ last.version # VERSION)
    => (last.err = UnsupportedTokenVersion /\ ~last.authTried)

\* C4 happens: 29 bytes that are no token of encrypt, with version 2
C4_Witness ==
    /\ last.op = "decrypt"
    /\ last.kind = "foreign"
    /\ KEY # NULL
    /\ last.decodedLen = 29
    /\ last.version = 2
    /\ last.err = UnsupportedTokenVersion

\* C5: with a key established, decrypt raises MalformedToken for every token of
\* fewer than 29 decoded bytes, also when its first byte is an unsupported
\* version: the length check comes first.
C5_ShortIsMalformed ==
    (/\ last.op = "decrypt"
     /\ KEY # NULL
     /\ last.decodedLen < 1 + IV_LEN + TAG_LEN)
    => (last.err = MalformedToken /\ ~last.authTried)

\* C5 happens: 28 bytes with version 2
C5_Witness ==
    /\ last.op = "decrypt"
    /\ KEY # NULL
    /\ last.decodedLen = 28
    /\ last.version = 2
    /\ last.err = MalformedToken

\* C6: initSecrets called while Uninitialized with a missing or blank secret and
\* no environment default fails with MissingSecret and leaves KEY null; the
\* initSecrets call after such a failure, given a secret that is not blank,
\* establishes the key.
C6_MissingSecret ==
    [][/\ (/\ KEY = NULL
           /\ last'.op = "initSecrets"
           /\ IsBlank(last'.arg)
           /\ IsBlank(env))
          => (last'.err = MissingSecret /\ KEY' = NULL)
       /\ (/\ last.op = "initSecrets"
           /\ last.err = MissingSecret
           /\ last'.op = "initSecrets"
           /\ ~IsBlank(last'.arg))
          => (last'.err = NoError /\ KEY' # NULL)]_vars

\* C6 happens: an initSecrets that failed with MissingSecret was followed by one
\* that established the key
C6_Witness ==
    /\ last.op = "initSecrets"
    /\ last.afterMissing
    /\ last.keyBefore = NULL
    /\ last.err = NoError
    /\ KEY # NULL

\* C7: encrypt and decrypt called while Uninitialized run initSecrets() on the
\* environment secret alone: if it is missing or blank they fail with
\* MissingSecret, return nothing and leave KEY null; otherwise KEY becomes the
\* key of the environment secret, and a token encrypt returns is made with it.
C7_ImplicitInit ==
    [][(KEY = NULL /\ last'.op \in {"encrypt", "decrypt"})
       => IF IsBlank(env)
          THEN /\ last'.err = MissingSecret
               /\ last'.value = Undefined
               /\ KEY' = NULL
               /\ issued' = issued
          ELSE /\ last'.err # MissingSecret
               /\ KEY' = createSecretKey(
                            LET secret == parseSecret(trim(env))
                            IN  IF Len(secret) = 32 THEN secret
                                ELSE hkdfSync(secret, HKDF_SALT, HKDF_INFO, 32))
               /\ (last'.op = "encrypt"
                   => /\ Len(issued') = Len(issued) + 1
                      /\ issued'[Len(issued')].key = KEY'
                      /\ last'.value = issued'[Len(issued')].token)]_vars

\* C7 happens: encrypt was the first call of a process with an environment
\* secret, and returned a token
C7_Witness ==
    /\ last.op = "encrypt"
    /\ last.keyBefore = NULL
    /\ ~IsBlank(env)
    /\ last.err = NoError
    /\ KEY # NULL

\* a base64 or base64url string: characters of the alphabets only, with at most
\* two '=' at the end
IsBase64String(s) ==
    LET body == stripPadding(s)
    IN  /\ body # <<>>
        /\ Len(s) - Len(body) <= 2
        /\ \A i \in 1..Len(body) : unbase64(body[i]) >= 0

\* the key material C8 claims for a trimmed secret
ClaimedMaterial(s) ==
    IF IsHexString(s) /\ Len(s) % 2 = 0 THEN fromHex(s)
    ELSE IF IsBase64String(s) /\ Len(fromBase64(s)) > 0 THEN fromBase64(s)
    ELSE utf8Encode(s)

\* C8: initSecrets parses the trimmed secret as hex when it is hex digits of even
\* length, else as base64/base64url when that yields a byte, else as UTF-8; in
\* particular a secret that is neither hex nor a base64/base64url string is
\* taken as its UTF-8 bytes.
C8_ParsePriority ==
    (last.op = "initSecrets" /\ last.err = NoError)
    => KEY = createSecretKey(
                 LET secret == ClaimedMaterial(trim(last.arg))
                 IN  IF Len(secret) = 32 THEN secret
                     ELSE hkdfSync(secret, HKDF_SALT, HKDF_INFO, 32))

\* C9: two calls to encrypt with the same plaintext under the same key return
\* different token strings.
C9_TokensDiffer ==
    \A i, j \in 1..Len(issued) :
        (i < j /\ issued[i].plaintext = issued[j].plaintext
               /\ issued[i].key = issued[j].key)
        => issued[i].token # issued[j].token

\* C9 happens: encrypt has returned two tokens for the same plaintext
C9_Witness ==
    \E i, j \in 1..Len(issued) :
        /\ i < j
        /\ issued[i].plaintext = issued[j].plaintext
        /\ issued[i].key = issued[j].key
        /\ issued[i].iv # issued[j].iv

-----------------------------------------------------------------------------
(* The compression codec (src/unnamed/part_006).                           *)
(*                                                                         *)
(* A JavaScript value is a record with a tag t: "null", "bool", "num",     *)
(* "str" (v: code units), "arr" (v: a sequence of values) and "obj" (v:    *)
(* its own enumerable properties [k, v], in the order Object.keys and      *)
(* JSON.stringify see them: array-index keys ascending, then the other     *)
(* keys in the order they were created).                                   *)

JsNull == [t |-> "null"]
JsBool(b) == [t |-> "bool", v |-> b]
JsNum(n) == [t |-> "num", v |-> n]
JsStr(s) == [t |-> "str", v |-> s]
JsArr(a) == [t |-> "arr", v |-> a]
JsObj(props) == [t |-> "obj", v |-> props]

\* '__proto__'
ProtoKey == <<95, 95, 112, 114, 111, 116, 111, 95, 95>>

IsDigit(c) == c >= 48 /\ c <= 57

\* a canonical array index: '0', or digits with no leading zero
IsArrayIndex(k) ==
    /\ k # <<>>
    /\ Len(k) <= 9
    /\ \A i \in 1..Len(k) : IsDigit(k[i])
    /\ (k[1] = 48 => Len(k) = 1)

RECURSIVE decimalValue(_)
decimalValue(k) ==
    IF k = <<>> THEN 0
    ELSE 10 * decimalValue(Slice(k, 1, Len(k) - 1)) + (k[Len(k)] - 48)

\* the comparison of Array.prototype.sort() on strings: by code units
RECURSIVE StrLess(_, _)
StrLess(a, b) ==
    IF b = <<>> THEN FALSE
    ELSE IF a = <<>> THEN TRUE
    ELSE IF Head(a) # Head(b) THEN Head(a) < Head(b)
    ELSE StrLess(Tail(a), Tail(b))

RECURSIVE insertSorted(_, _)
insertSorted(keys, k) ==
    IF keys = <<>> THEN <<k>>
    ELSE IF StrLess(k, Head(keys)) THEN <<k>> \o keys
    ELSE <<Head(keys)>> \o insertSorted(Tail(keys), k)

\* keys.sort()
RECURSIVE sortKeys(_)
sortKeys(keys) ==
    IF keys = <<>> THEN <<>> ELSE insertSorted(sortKeys(Tail(keys)), Head(keys))

\* Object.keys(o)
objectKeys(props) == [i \in 1..Len(props) |-> props[i].k]

hasOwn(props, k) == \E i \in 1..Len(props) : props[i].k = k

\* o[k] for an own property
getOwn(props, k) == props[CHOOSE i \in 1..Len(props) : props[i].k = k].v

\* where a new key goes among the own properties
orderedBefore(k, other) ==
    IF IsArrayIndex(k)
    THEN ~IsArrayIndex(other) \/ decimalValue(k) < decimalValue(other)
    ELSE FALSE

RECURSIVE insertOwn(_, _, _)
insertOwn(props, k, val) ==
    IF props = <<>> THEN <<[k |-> k, v |-> val]>>
    ELSE IF orderedBefore(k, Head(props).k) THEN <<[k |-> k, v |-> val]>> \o props
    ELSE <<Head(props)>> \o insertOwn(Tail(props), k, val)

\* CreateDataProperty(o, k, val), as JSON.parse does for each member
defineOwn(props, k, val) ==
    IF hasOwn(props, k)
    THEN [i \in 1..Len(props) |->
             IF props[i].k = k THEN [k |-> k, v |-> val] ELSE props[i]]
    ELSE insertOwn(props, k, val)

\* the assignment o[k] = val on an object whose prototype is Object.prototype:
\* '__proto__' reaches the accessor of Object.prototype, which sets the
\* prototype (or does nothing) and creates no own property
assignProperty(props, k, val) ==
    IF k = ProtoKey /\ ~hasOwn(props, k) THEN props ELSE defineOwn(props, k, val)

\* part_006 lines 56-68.  Every "obj" of this model is a plain object.
RECURSIVE canonicalize(_)
RECURSIVE canonicalizeInto(_, _, _)
canonicalizeInto(out, v, keys) ==
    IF keys = <<>> THEN out
    ELSE canonicalizeInto(
             assignProperty(out, Head(keys), canonicalize(getOwn(v.v, Head(keys)))),
             v, Tail(keys))

\* canonicalize without the sort of line 62
canonicalize_noSort(v) ==
    IF v.t = "arr" THEN JsArr([i \in 1..Len(v.v) |-> canonicalize(v.v[i])])
    ELSE IF v.t = "obj" THEN JsObj(canonicalizeInto(<<>>, v, objectKeys(v.v)))
    ELSE v

canonicalize(v) ==
    IF v.t = "arr" THEN JsArr([i \in 1..Len(v.v) |-> canonicalize(v.v[i])])
    ELSE IF v.t = "obj" THEN JsObj(canonicalizeInto(<<>>, v, sortKeys(objectKeys(v.v))))
    ELSE v

(* JSON.stringify *)

hexChar(d) == IF d < 10 THEN 48 + d ELSE 87 + d

\* \uXXXX
unicodeEscape(c) ==
    <<92, 117, hexChar(c \div 4096), hexChar((c \div 256) % 16),
      hexChar((c \div 16) % 16), hexChar(c % 16)>>

\* QuoteJSONString, the code unit at i: a surrogate is kept when it is half of
\* a pair and escaped when it is not
quoteUnit(s, i) ==
    LET c == s[i] IN
    CASE c = 34 -> <<92, 34>>
      [] c = 92 -> <<92, 92>>
      [] c = 8 -> <<92, 98>>
      [] c = 9 -> <<92, 116>>
      [] c = 10 -> <<92, 110>>
      [] c = 12 -> <<92, 102>>
      [] c = 13 -> <<92, 114>>
      [] c < 32 /\ c \notin {8, 9, 10, 12, 13} -> unicodeEscape(c)
      [] IsHighSurrogate(c) ->
            IF i < Len(s) /\ IsLowSurrogate(s[i + 1]) THEN <<c>> ELSE unicodeEscape(c)
      [] IsLowSurrogate(c) ->
            IF i > 1 /\ IsHighSurrogate(s[i - 1]) THEN <<c>> ELSE unicodeEscape(c)
      [] OTHER -> <<c>>

quoteChars(s) == join([i \in 1..Len(s) |-> quoteUnit(s, i)])

quote(s) == <<34>> \o quoteChars(s) \o <<34>>

RECURSIVE decimalDigits(_)
decimalDigits(n) ==
    IF n < 10 THEN <<48 + n>> ELSE decimalDigits(n \div 10) \o <<48 + (n % 10)>>

\* Number::toString of an integer
numberToString(n) == IF n < 0 THEN <<45>> \o decimalDigits(-n) ELSE decimalDigits(n)

RECURSIVE stringify(_)
stringifyElements(a) ==
    join([i \in 1..Len(a) |-> stringify(a[i]) \o (IF i < Len(a) THEN <<44>> ELSE <<>>)])

stringifyMembers(props) ==
    join([i \in 1..Len(props) |->
             quote(props[i].k) \o <<58>> \o stringify(props[i].v)
             \o (IF i < Len(props) THEN <<44>> ELSE <<>>)])

\* JSON.stringify(v) of a JSON-compatible value
stringify(v) ==
    CASE v.t = "null" -> <<110, 117, 108, 108>>
      [] v.t = "bool" -> IF v.v THEN <<116, 114, 117, 101>> ELSE <<102, 97, 108, 115, 101>>
      [] v.t = "num" -> numberToString(v.v)
      [] v.t = "str" -> quote(v.v)
      [] v.t = "arr" -> <<91>> \o stringifyElements(v.v) \o <<93>>
      [] v.t = "obj" -> <<123>> \o stringifyMembers(v.v) \o <<125>>

(* JSON.parse, of the texts JSON.stringify writes.  Each parser returns the *)
(* value read and the index of the code unit after it.                      *)

unescape(e) ==
    CASE e = 98 -> 8
      [] e = 102 -> 12
      [] e = 110 -> 10
      [] e = 114 -> 13
      [] e = 116 -> 9
      [] OTHER -> e

\* the number of backslashes that end just before position p of a string
\* that starts at position i
backslashesBefore(s, i, p) ==
    LET q == CHOOSE q \in (i - 1)..(p - 1) :
                 /\ q = i - 1 \/ s[q] # 92
                 /\ \A r \in (q + 1)..(p - 1) : s[r] = 92
    IN  p - 1 - q

\* position p is the second code unit of an escape
IsEscaped(s, i, p) == backslashesBefore(s, i, p) % 2 = 1

\* the code units that position p of the string contributes
stringUnits(s, i, p) ==
    IF IsEscaped(s, i, p)
    THEN IF s[p] = 117
         THEN <<4096 * hexValue(s[p + 1]) + 256 * hexValue(s[p + 2])
                + 16 * hexValue(s[p + 3]) + hexValue(s[p + 4])>>
         ELSE <<unescape(s[p])>>
    ELSE IF s[p] = 92 THEN <<>>
    ELSE IF \E k \in 1..4 : p - k >= i /\ s[p - k] = 117 /\ IsEscaped(s, i, p - k) THEN <<>>
    ELSE <<s[p]>>

\* the string whose first code unit is at position i, up to its closing quote
parseString(s, i) ==
    LET IsClosing(p) == s[p] = 34 /\ ~IsEscaped(s, i, p)
        end == CHOOSE p \in i..Len(s) : IsClosing(p) /\ \A k \in i..(p - 1) : ~IsClosing(k)
    IN  [v |-> join([p \in 1..(end - i) |-> stringUnits(s, i, i + p - 1)]), i |-> end + 1]

RECURSIVE parseDigits(_, _, _)
parseDigits(s, i, acc) ==
    IF i <= Len(s) /\ IsDigit(s[i]) THEN parseDigits(s, i + 1, 10 * acc + (s[i] - 48))
    ELSE [v |-> acc, i |-> i]

parseNumber(s, i) ==
    IF s[i] = 45
    THEN LET r == parseDigits(s, i + 1, 0) IN [v |-> JsNum(-r.v), i |-> r.i]
    ELSE LET r == parseDigits(s, i, 0) IN [v |-> JsNum(r.v), i |-> r.i]

RECURSIVE parseValue(_, _)
RECURSIVE parseElements(_, _, _)
RECURSIVE parseMembers(_, _, _)
parseElements(s, i, acc) ==
    LET r == parseValue(s, i) IN
    IF s[r.i] = 44 THEN parseElements(s, r.i + 1, Append(acc, r.v))
    ELSE [v |-> JsArr(Append(acc, r.v)), i |-> r.i + 1]

parseMembers(s, i, props) ==
    LET key == parseString(s, i + 1)
        r == parseValue(s, key.i + 1)
        next == defineOwn(props, key.v, r.v)
    IN  IF s[r.i] = 44 THEN parseMembers(s, r.i + 1, next)
        ELSE [v |-> JsObj(next), i |-> r.i + 1]

parseValue(s, i) ==
    CASE s[i] = 110 -> [v |-> JsNull, i |-> i + 4]
      [] s[i] = 116 -> [v |-> JsBool(TRUE), i |-> i + 4]
      [] s[i] = 102 -> [v |-> JsBool(FALSE), i |-> i + 5]
      [] s[i] = 34 ->
            LET r == parseString(s, i + 1) IN [v |-> JsStr(r.v), i |-> r.i]
      [] s[i] = 91 ->
            IF s[i + 1] = 93 THEN [v |-> JsArr(<<>>), i |-> i + 2]
            ELSE parseElements(s, i + 1, <<>>)
      [] s[i] = 123 ->
            IF s[i + 1] = 125 THEN [v |-> JsObj(<<>>), i |-> i + 2]
            ELSE parseMembers(s, i + 1, <<>>)
      [] OTHER -> parseNumber(s, i)

JSONparse(text) == parseValue(text, 1).v

\* node:zlib's Brotli: a lossless stream around the input bytes
brotliCompressSync(input) == [stream |-> "brotli", data |-> input]
brotliDecompressSync(buf) == buf.data

compressString(value) == brotliCompressSync(utf8Encode(value))

compressJson(value, canonical) ==
    compressString(stringify(IF canonical THEN canonicalize(value) ELSE value))

decompressString(buf) == utf8Decode(brotliDecompressSync(buf))

decompressJson(buf) == JSONparse(decompressString(buf))

-----------------------------------------------------------------------------
(* SpecCodec: the codec applied once to a JSON-compatible value or to a    *)
(* string.                                                                 *)

\* the most own properties of an object, and the most elements of an array
MaxKeys == 2
MaxItems == 2

\* null, true, -12, 'a"\<LF>U+1F600', and e-acute followed by an unpaired
\* high surrogate
Atoms == {JsNull, JsBool(TRUE), JsNum(-12),
          JsStr(<<97, 34, 92, 10, 55357, 56832>>), JsStr(<<233, 55357>>)}

\* 'b', 'a', '10', '9' and '__proto__'
Keys == {<<98>>, <<97>>, <<49, 48>>, <<57>>, ProtoKey}

\* the object that has been given the members ms, one after the other
RECURSIVE objectFrom(_, _)
objectFrom(props, ms) ==
    IF ms = <<>> THEN JsObj(props)
    ELSE objectFrom(defineOwn(props, Head(ms).k, Head(ms).v), Tail(ms))

Injective(f) == \A i, j \in DOMAIN f : f[i] = f[j] => i = j

ObjectsOver(children) ==
    UNION {{objectFrom(<<>>, [i \in 1..n |-> [k |-> ks[i], v |-> vs[i]]]) :
               ks \in {f \in [1..n -> Keys] : Injective(f)}, vs \in [1..n -> children]} :
           n \in 0..MaxKeys}

ArraysOver(children) ==
    UNION {{JsArr([i \in 1..n |-> vs[i]]) : vs \in [1..n -> children]} : n \in 0..MaxItems}

\* { b: -12, a: { 9: null, 10: true } }, { '__proto__': { a: true } } (as
\* JSON.parse builds it), [ { b: null, a: [] } ]
Nested ==
    {objectFrom(<<>>, <<[k |-> <<98>>, v |-> JsNum(-12)],
                        [k |-> <<97>>,
                         v |-> objectFrom(<<>>, <<[k |-> <<57>>, v |-> JsNull],
                                                  [k |-> <<49, 48>>, v |-> JsBool(TRUE)]>>)]>>),
     objectFrom(<<>>, <<[k |-> ProtoKey,
                         v |-> objectFrom(<<>>, <<[k |-> <<97>>, v |-> JsBool(TRUE)]>>)]>>),
     JsArr(<<objectFrom(<<>>, <<[k |-> <<98>>, v |-> JsNull],
                                [k |-> <<97>>, v |-> JsArr(<<>>)]>>)>>)}

JsonValues == Atoms \cup ObjectsOver(Atoms) \cup ArraysOver(Atoms) \cup Nested

\* '', 'hi', 'a"\<LF>U+1F600', and e-acute followed by an unpaired high surrogate
CodecStrings == {<<>>, <<104, 105>>, <<97, 34, 92, 10, 55357, 56832>>, <<233, 55357>>}

NoResult == [op |-> "none", serialized |-> <<>>, value |-> <<>>]

CodecInit ==
    /\ KEY = NULL
    /\ env = Undefined
    /\ issued = <<>>
    /\ last = NoCall
    /\ \/ \E v \in JsonValues : cin = [kind |-> "json", v |-> v]
       \/ \E s \in CodecStrings : cin = [kind |-> "string", v |-> s]
    /\ cout = NoResult

\* decompressJson(compressJson(v, { canonical }))
JsonRoundTrip(canonical) ==
    /\ cout.op = "none"
    /\ cin.kind = "json"
    /\ cout' = [op |-> IF canonical THEN "json canonical" ELSE "json",
                serialized |-> IF canonical THEN canonicalize(cin.v) ELSE cin.v,
                value |-> decompressJson(compressJson(cin.v, canonical))]
    /\ UNCHANGED <<KEY, env, issued, last, cin>>

\* decompressString(compressString(s))
StringRoundTrip ==
    /\ cout.op = "none"
    /\ cin.kind = "string"
    /\ cout' = [op |-> "string", serialized |-> <<>>,
                value |-> decompressString(compressString(cin.v))]
    /\ UNCHANGED <<KEY, env, issued, last, cin>>

CodecNext ==
    \/ \E canonical \in BOOLEAN : JsonRoundTrip(canonical)
    \/ StringRoundTrip

SpecCodec == CodecInit /\ [][CodecNext]_vars

-----------------------------------------------------------------------------
(* The claims about the codec. *)

\* equality of JSON values: the members of an object are compared by key, in
\* whatever order they are held
RECURSIVE JsonEq(_, _)
JsonEq(a, b) ==
    IF a.t # b.t THEN FALSE
    ELSE IF a.t = "arr"
         THEN Len(a.v) = Len(b.v) /\ \A i \in 1..Len(a.v) : JsonEq(a.v[i], b.v[i])
    ELSE IF a.t = "obj"
         THEN /\ Len(a.v) = Len(b.v)
              /\ \A i \in 1..Len(a.v) :
                    hasOwn(b.v, a.v[i].k) /\ JsonEq(a.v[i].v, getOwn(b.v, a.v[i].k))
    ELSE a = b

\* C10: for every JSON-compatible value v, decompressJson(compressJson(v)) equals
\* v as a JSON value, with canonical=true and with canonical=false; and
\* decompressString(compressString(s)) equals s for every string s.
C10_CodecRoundTrip ==
    /\ cout.op \in {"json", "json canonical"} => JsonEq(cout.value, cin.v)
    /\ cout.op = "string" => cout.value = cin.v

\* what does hold: without canonicalization the round trip is exact
Codec_PlainRoundTrip == cout.op = "json" => cout.value = cin.v

\* what does hold: the canonical round trip is exact as a JSON value for every
\* value that has no '__proto__' key
RECURSIVE HasProtoKey(_)
HasProtoKey(v) ==
    IF v.t = "arr" THEN \E i \in 1..Len(v.v) : HasProtoKey(v.v[i])
    ELSE IF v.t = "obj"
         THEN hasOwn(v.v, ProtoKey) \/ \E i \in 1..Len(v.v) : HasProtoKey(v.v[i].v)
    ELSE FALSE

Codec_CanonicalRoundTrip ==
    (cout.op = "json canonical" /\ ~HasProtoKey(cin.v)) => JsonEq(cout.value, cin.v)

\* the order of the own properties of an object: array indices in ascending
\* numeric order, then the other keys; here the other keys by code units
PropertyOrder(a, b) ==
    IF IsArrayIndex(a) THEN ~IsArrayIndex(b) \/ decimalValue(a) < decimalValue(b)
    ELSE ~IsArrayIndex(b) /\ StrLess(a, b)

KeyBefore(order, a, b) ==
    IF order = "lexicographic" THEN StrLess(a, b) ELSE PropertyOrder(a, b)

\* the keys of every mapping of v, at every depth, are in the given order
RECURSIVE KeysOrdered(_, _)
KeysOrdered(v, order) ==
    IF v.t = "arr" THEN \A i \in 1..Len(v.v) : KeysOrdered(v.v[i], order)
    ELSE IF v.t = "obj"
         THEN /\ \A i \in 1..(Len(v.v) - 1) : KeyBefore(order, v.v[i].k, v.v[i + 1].k)
              /\ \A i \in 1..Len(v.v) : KeysOrdered(v.v[i].v, order)
    ELSE TRUE

\* out is v with its mappings rewritten and nothing else changed: arrays keep
\* their elements in place, other values are passed through.  (That a mapping
\* loses its '__proto__' key is the matter of C10.)
RECURSIVE Rewritten(_, _)
Rewritten(v, out) ==
    IF v.t = "arr"
    THEN /\ out.t = "arr"
         /\ Len(out.v) = Len(v.v)
         /\ \A i \in 1..Len(v.v) : Rewritten(v.v[i], out.v[i])
    ELSE IF v.t = "obj"
         THEN /\ out.t = "obj"
              /\ \A i \in 1..Len(v.v) : hasOwn(out.v, v.v[i].k) \/ v.v[i].k = ProtoKey
              /\ \A i \in 1..Len(out.v) :
                    /\ hasOwn(v.v, out.v[i].k)
                    /\ Rewritten(getOwn(v.v, out.v[i].k), out.v[i].v)
    ELSE out = v

\* C11 as stated: compressJson with canonical=true serializes a value whose
\* mappings have, at every depth, their keys in ascending lexicographic order,
\* whose arrays keep their element order and whose other values are passed
\* through; decompressJson returns what was serialized.
C11_LexicographicKeys ==
    cout.op = "json canonical"
    => /\ KeysOrdered(cout.serialized, "lexicographic")
       /\ Rewritten(cin.v, cout.serialized)
       /\ cout.value = cout.serialized

\* C11, amended: the keys of every serialized mapping are in ascending
\* lexicographic order except that keys that are array indices come first, in
\* ascending numeric order; arrays keep their element order, other values are
\* passed through, and decompressJson returns what was serialized, in the same
\* order.
C11_CanonicalKeys ==
    cout.op = "json canonical"
    => /\ KeysOrdered(cout.serialized, "property")
       /\ Rewritten(cin.v, cout.serialized)
       /\ cout.value = cout.serialized

\* { b: ..., a: ... } has been serialized as { a: ..., b: ... }
C11_Witness ==
    /\ cout.op = "json canonical"
    /\ cin.v.t = "obj"
    /\ objectKeys(cin.v.v) = <<<<98>>, <<97>>>>
    /\ objectKeys(cout.serialized.v) = <<<<97>>, <<98>>>>

-----------------------------------------------------------------------------
(* The BlackBerry download statistics (part_004).  A raw record is what    *)
(* csv-parse returns for a row: a record of strings, the DateTime column   *)
(* being one of the instants '2024-01-<day>T00:00:00Z'.  A Map is the      *)
(* sequence of its entries [k, v] in insertion order.                      *)

Categorical == <<"Version", "DeviceModel", "OSVersion", "Locale", "Country", "Carrier">>

\* Math.floor(new Date(record.DateTime).getTime() / 1000)
epochSeconds(dateTime) == 1704067200 + 86400 * (dateTime.day - 1)

\* lines 55-89, for one column: the keys of its Map of unique values
RECURSIVE uniqueKeys(_, _, _)
uniqueKeys(keys, records, column) ==
    IF records = <<>> THEN keys
    ELSE LET value == trim(Head(records)[column])
         IN  uniqueKeys(IF value # <<>> /\ ~\E i \in 1..Len(keys) : keys[i] = value
                        THEN Append(keys, value) ELSE keys,
                        Tail(records), column)

\* lines 108-125: the Map that gives sorted[i] the id i + 1 (i from 0)
toId(sorted) == [i \in 1..Len(sorted) |-> [k |-> sorted[i], v |-> i]]

\* the ids given in the order of first appearance, without the sort
columnToId_firstSeen(allRecords, column) == toId(uniqueKeys(<<>>, allRecords, column))

\* lines 93-98 and 108-125, for one column
columnToId(allRecords, column) == toId(sortKeys(uniqueKeys(<<>>, allRecords, column)))

\* Map.prototype.get on a Map of ids.  The undefined of a missing key is
\* written 0: the ids start at 1 and line 152 only asks whether the value
\* is truthy
mapGet(map, k) == IF hasOwn(map, k) THEN getOwn(map, k) ELSE 0

Truthy(id) == id # 0

\* line 141
isInvalid(record) == \E i \in 1..Len(Categorical) : trim(record[Categorical[i]]) = <<>>

\* lines 145-163
normalizeRecord(record, toIds) ==
    [ProductName |-> record.ProductName,
     FileBundleName |-> record.FileBundleName,
     VersionId |-> mapGet(toIds.Version, trim(record.Version)),
     DateTime |-> epochSeconds(record.DateTime),
     DeviceId |-> mapGet(toIds.DeviceModel, trim(record.DeviceModel)),
     OSId |-> mapGet(toIds.OSVersion, trim(record.OSVersion)),
     CarrierId |-> mapGet(toIds.Carrier, trim(record.Carrier)),
     LocaleId |-> mapGet(toIds.Locale, trim(record.Locale)),
     CountryId |-> mapGet(toIds.Country, trim(record.Country))]

\* lines 130-165
RECURSIVE normalizeAll(_, _)
normalizeAll(allRecords, toIds) ==
    IF allRecords = <<>> THEN <<>>
    ELSE LET record == Head(allRecords)
             n == normalizeRecord(record, toIds)
             rest == normalizeAll(Tail(allRecords), toIds)
         IN  IF isInvalid(record) THEN rest
             ELSE IF /\ Truthy(n.VersionId) /\ Truthy(n.DeviceId) /\ Truthy(n.OSId)
                     /\ Truthy(n.LocaleId) /\ Truthy(n.CountryId) /\ Truthy(n.CarrierId)
                  THEN <<n>> \o rest
                  ELSE rest

\* line 168: Array.prototype.sort is stable
RECURSIVE insertByDate(_, _)
insertByDate(sorted, r) ==
    IF sorted = <<>> THEN <<r>>
    ELSE IF r.DateTime - Head(sorted).DateTime < 0 THEN <<r>> \o sorted
    ELSE <<Head(sorted)>> \o insertByDate(Tail(sorted), r)

RECURSIVE sortByDate(_)
sortByDate(records) ==
    IF records = <<>> THEN <<>>
    ELSE insertByDate(sortByDate(Slice(records, 1, Len(records) - 1)), records[Len(records)])

\* lines 171-180: the Map from a product name to its records
RECURSIVE groupByProduct(_, _)
groupByProduct(grouped, records) ==
    IF records = <<>> THEN grouped
    ELSE LET name == Head(records).ProductName
             sofar == IF hasOwn(grouped, name) THEN getOwn(grouped, name) ELSE <<>>
         IN  groupByProduct(
                 IF hasOwn(grouped, name)
                 THEN [i \in 1..Len(grouped) |->
                          IF grouped[i].k = name
                          THEN [k |-> name, v |-> Append(sofar, Head(records))]
                          ELSE grouped[i]]
                 ELSE Append(grouped, [k |-> name, v |-> <<Head(records)>>]),
                 Tail(records))

\* Object.fromEntries over the entries of a Map
RECURSIVE fromEntries(_, _)
fromEntries(props, entries) ==
    IF entries = <<>> THEN props
    ELSE fromEntries(defineOwn(props, Head(entries).k, Head(entries).v), Tail(entries))

\* lines 184-189, for one Map of ids
mappingOf(map) == JsObj(fromEntries(<<>>, [i \in 1..Len(map) |-> [k |-> map[i].k, v |-> JsNum(map[i].v)]]))

\* Array.prototype.join
joinWith(ss, sep) == join([i \in 1..Len(ss) |-> IF i < Len(ss) THEN ss[i] \o sep ELSE ss[i]])

\* 'VersionId,DateTime,DeviceId,OSId,CarrierId,LocaleId,CountryId'
CsvHeader ==
    <<86, 101, 114, 115, 105, 111, 110, 73, 100, 44, 68, 97, 116, 101, 84, 105, 109, 101, 44,
      68, 101, 118, 105, 99, 101, 73, 100, 44, 79, 83, 73, 100, 44, 67, 97, 114, 114, 105,
      101, 114, 73, 100, 44, 76, 111, 99, 97, 108, 101, 73, 100, 44, 67, 111, 117, 110, 116,
      114, 121, 73, 100>>

\* lines 202-209: the lines of a product's CSV file
csvRows(records) ==
    <<CsvHeader>> \o
    [i \in 1..Len(records) |->
        joinWith(<<numberToString(records[i].VersionId), numberToString(records[i].DateTime),
                   numberToString(records[i].DeviceId), numberToString(records[i].OSId),
                   numberToString(records[i].CarrierId), numberToString(records[i].LocaleId),
                   numberToString(records[i].CountryId)>>, <<44>>)]

\* lines 27-219.  files are the parsed rows of each of filePaths; written is
\* what the run leaves on disk
normalizeDownloads(files) ==
    LET allRecords == join(files)
        toIds == [column \in {Categorical[i] : i \in 1..Len(Categorical)} |->
                     columnToId(allRecords, column)]
        normalizedRecords == sortByDate(normalizeAll(allRecords, toIds))
        groupedRecords == groupByProduct(<<>>, normalizedRecords)
        mappings == [versions |-> mappingOf(toIds.Version),
                     devices |-> mappingOf(toIds.DeviceModel),
                     osVersions |-> mappingOf(toIds.OSVersion),
                     locales |-> mappingOf(toIds.Locale),
                     countries |-> mappingOf(toIds.Country),
                     carriers |-> mappingOf(toIds.Carrier)]
    IN  [normalizedRecords |-> fromEntries(<<>>, groupedRecords),
         mappings |-> mappings,
         written |->
             [json |-> [name \in DOMAIN mappings |-> stringify(mappings[name])],
              csv |-> [i \in 1..Len(groupedRecords) |->
                          [k |-> groupedRecords[i].k,
                           v |-> compressString(joinWith(csvRows(groupedRecords[i].v), <<10>>))]]]]

\* the truthiness of a value parsed from JSON
IsTruthy(v) ==
    CASE v.t = "null" -> FALSE
      [] v.t = "bool" -> v.v
      [] v.t = "num" -> v.v # 0
      [] v.t = "str" -> v.v # <<>>
      [] OTHER -> TRUE

\* `Unknown (${id})`
unknownLabel(id) == <<85, 110, 107, 110, 111, 119, 110, 32, 40>> \o id \o <<41>>

\* lines 355-356.  lookup is an object parsed from JSON and the id a decimal
\* string, which names no property of Object.prototype
lookupName(lookup, n) ==
    LET id == numberToString(n)
    IN  IF hasOwn(lookup.v, id) /\ IsTruthy(getOwn(lookup.v, id))
        THEN getOwn(lookup.v, id)
        ELSE JsStr(unknownLabel(id))

\* lines 351-358: the Map from a name to its count
RECURSIVE countByName(_, _, _, _)
countByName(counts, records, field, lookup) ==
    IF records = <<>> THEN counts
    ELSE LET name == lookupName(lookup, Head(records)[field])
         IN  countByName(
                 IF \E i \in 1..Len(counts) : counts[i].name = name
                 THEN [i \in 1..Len(counts) |->
                          IF counts[i].name = name
                          THEN [name |-> name, downloads |-> counts[i].downloads + 1]
                          ELSE counts[i]]
                 ELSE Append(counts, [name |-> name, downloads |-> 1]),
                 Tail(records), field, lookup)

\* line 365: Array.prototype.sort is stable
RECURSIVE insertByDownloads(_, _)
insertByDownloads(sorted, item) ==
    IF sorted = <<>> THEN <<item>>
    ELSE IF Head(sorted).downloads - item.downloads < 0 THEN <<item>> \o sorted
    ELSE <<Head(sorted)>> \o insertByDownloads(Tail(sorted), item)

RECURSIVE sortByDownloads(_)
sortByDownloads(items) ==
    IF items = <<>> THEN <<>>
    ELSE insertByDownloads(sortByDownloads(Slice(items, 1, Len(items) - 1)), items[Len(items)])

\* lines 346-367
groupByField(records, field, lookup) == sortByDownloads(countByName(<<>>, records, field, lookup))

RECURSIVE sumDownloads(_)
sumDownloads(items) ==
    IF items = <<>> THEN 0 ELSE Head(items).downloads + sumDownloads(Tail(items))

\* Math.round((downloads / total) * 10000) / 100, as a number of hundredths:
\* Math.round(x) is floor(x + 1/2)
percentageOf(downloads, total) ==
    IF total > 0 THEN (2 * downloads * 10000 + total) \div (2 * total) ELSE 0

\* calculatePercentages with the total taken over the five items of a top slice
calculatePercentages_topSlice(items) ==
    LET total == sumDownloads(Slice(items, 1, Min(5, Len(items))))
    IN  [i \in 1..Len(items) |->
            [name |-> items[i].name, downloads |-> items[i].downloads,
             percentage |-> percentageOf(items[i].downloads, total)]]

\* lines 330-344.  percentage is in hundredths of a percent
calculatePercentages(items) ==
    LET total == sumDownloads(items)
    IN  [i \in 1..Len(items) |->
            [name |-> items[i].name, downloads |-> items[i].downloads,
             percentage |-> percentageOf(items[i].downloads, total)]]

\* lines 479-495
topNames(breakdown, n) == [i \in 1..Min(n, Len(breakdown)) |-> breakdown[i].name]

\* lines 394-515, without dateRange and downloadsOverTime.  An item of a
\* breakdown carries its label in name, whatever the breakdown calls it
calculateStats(records, referenceData) ==
    IF Len(records) = 0
    THEN [totalDownloads |-> 0, uniqueDevices |-> 0,
          downloadsByCountry |-> <<>>, downloadsByVersion |-> <<>>,
          downloadsByDevice |-> <<>>, downloadsByCarrier |-> <<>>,
          downloadsByOS |-> <<>>, downloadsByLocale |-> <<>>,
          topCountries |-> <<>>, topDevices |-> <<>>, topVersions |-> <<>>]
    ELSE LET downloadsByCountry ==
                 calculatePercentages(groupByField(records, "CountryId", referenceData.countries))
             downloadsByVersion ==
                 calculatePercentages(groupByField(records, "VersionId", referenceData.versions))
             downloadsByDevice ==
                 calculatePercentages(groupByField(records, "DeviceId", referenceData.devices))
         IN  [totalDownloads |-> Len(records),
              uniqueDevices |-> Cardinality({records[i].DeviceId : i \in 1..Len(records)}),
              downloadsByCountry |-> downloadsByCountry,
              downloadsByVersion |-> downloadsByVersion,
              downloadsByDevice |-> downloadsByDevice,
              downloadsByCarrier |->
                  calculatePercentages(groupByField(records, "CarrierId", referenceData.carriers)),
              downloadsByOS |->
                  calculatePercentages(groupByField(records, "OSId", referenceData.osVersions)),
              downloadsByLocale |->
                  calculatePercentages(groupByField(records, "LocaleId", referenceData.locales)),
              topCountries |-> topNames(downloadsByCountry, 10),
              topDevices |-> topNames(downloadsByDevice, 10),
              topVersions |-> topNames(downloadsByVersion, 5)]

\* lines 244-264 over the mapping files a run has written
loadReferenceData(json) == [name \in DOMAIN json |-> JSONparse(json[name])]

\* utils.ts lines 152-154, on an object of ids: the keys of the result are
\* the decimal strings of the ids
invertObject(obj) ==
    JsObj(fromEntries(<<>>, [i \in 1..Len(obj.v) |->
                                [k |-> numberToString(obj.v[i].v.v), v |-> JsStr(obj.v[i].k)]]))

-----------------------------------------------------------------------------
(* SpecDownloads: normalizeDownloads applied once to the rows of up to     *)
(* MaxRows raw records in two files, and calculateStats applied once to    *)
(* up to MaxRecords loaded records.                                        *)

MaxRows == 3

Row(product, bundle, version, day, device, os, carrier, locale, country) ==
    [ProductName |-> product, FileBundleName |-> bundle, Version |-> version,
     DateTime |-> [day |-> day], DeviceModel |-> device, OSVersion |-> os,
     Carrier |-> carrier, Locale |-> locale, Country |-> country]

\* q,q,9,<day 2>,B,O,C,en,CA          q,q,10,<day 1>,A,O,C,en,CA
\* s,s," 9 ",<day 3>,a,O,C,fr,US      i,,9,<day 5>,D,P,E,, (the invalid row of
\* part_002 line 21: no bundle name, locale or country)
\* ,q,9,<day 4>,A,O,C,en,CA           q,q,"<U+00A0>",<day 1>,A,O,C,en,FR
RowPool ==
    {Row(<<113>>, <<113>>, <<57>>, 2, <<66>>, <<79>>, <<67>>, <<101, 110>>, <<67, 65>>),
     Row(<<113>>, <<113>>, <<49, 48>>, 1, <<65>>, <<79>>, <<67>>, <<101, 110>>, <<67, 65>>),
     Row(<<115>>, <<115>>, <<32, 57, 32>>, 3, <<97>>, <<79>>, <<67>>, <<102, 114>>, <<85, 83>>),
     Row(<<105>>, <<>>, <<57>>, 5, <<68>>, <<80>>, <<69>>, <<>>, <<>>),
     Row(<<>>, <<113>>, <<57>>, 4, <<65>>, <<79>>, <<67>>, <<101, 110>>, <<67, 65>>),
     Row(<<113>>, <<113>>, <<160>>, 1, <<65>>, <<79>>, <<67>>, <<101, 110>>, <<70, 82>>)}

RowBatches == UNION {[1..n -> RowPool] : n \in 0..MaxRows}

\* the rows in the order order, split into two files after the first cut
Rearranged(rows, order, cut) ==
    LET moved == [i \in 1..Len(rows) |-> rows[order[i]]]
    IN  <<Slice(moved, 1, cut), Slice(moved, cut + 1, Len(moved))>>


MaxRecords == 7

\* n loaded records over the given numbers of versions and countries
LoadedRecords(n, versions, countries) ==
    [i \in 1..n |->
        [VersionId |-> 1 + (i % versions), DateTime |-> epochSeconds([day |-> i]),
         DeviceId |-> 1 + (i % 2), OSId |-> 1, CarrierId |-> 1,
         LocaleId |-> 1 + ((i * i) % 3), CountryId |-> 1 + ((i * i) % countries)]]

\* { A: 1, B: 2, ... } over k names
ForwardLookup(k) == JsObj(fromEntries(<<>>, [i \in 1..k |-> [k |-> <<64 + i>>, v |-> JsNum(i)]]))

\* the lookup tables: the inverse of the ids' dictionary, that of its first
\* two ids only, and the dictionary itself as a run writes it (part_002 lines
\* 41-47 copy the written files to where loadReferenceData reads them)
ReferenceKinds == {"inverse", "partial", "forward"}

ReferenceOf(kind) ==
    LET lookup == CASE kind = "inverse" -> invertObject(ForwardLookup(MaxRecords))
                    [] kind = "partial" -> invertObject(ForwardLookup(2))
                    [] OTHER -> ForwardLookup(MaxRecords)
    IN  [countries |-> lookup, devices |-> lookup, locales |-> lookup,
         osVersions |-> lookup, versions |-> lookup, carriers |-> lookup]

NoOutput == [op |-> "none"]

DownloadsInit ==
    /\ KEY = NULL
    /\ env = Undefined
    /\ issued = <<>>
    /\ last = NoCall
    /\ \/ \E rows \in RowBatches, cut \in 0..MaxRows :
             /\ cut <= Len(rows)
             /\ cin = [kind |-> "downloads",
                       files |-> Rearranged(rows, [i \in 1..Len(rows) |-> i], cut)]
       \/ \E n \in 0..MaxRecords, versions \in 1..MaxRecords, countries \in 1..3,
             kind \in ReferenceKinds :
             cin = [kind |-> "stats", records |-> LoadedRecords(n, versions, countries),
                    referenceData |-> ReferenceOf(kind)]
    /\ cout = NoOutput

\* normalizeDownloads(filePaths), and once more over the same rows in another
\* order and split
NormalizeDownloads(order, cut) ==
    /\ cout.op = "none"
    /\ cin.kind = "downloads"
    /\ cout' = [op |-> "normalize",
                result |-> normalizeDownloads(cin.files),
                again |-> normalizeDownloads(Rearranged(join(cin.files), order, cut)).mappings]
    /\ UNCHANGED <<KEY, env, issued, last, cin>>

\* the orders in which the same n records are handed over once more: as
\* they are, reversed, and rotated by one
RecordOrders(n) ==
    {[i \in 1..n |-> i], [i \in 1..n |-> n + 1 - i], [i \in 1..n |-> 1 + (i % n)]}

\* calculateStats(records, referenceData), and once more over the same
\* records in another order
CalculateStats(order) ==
    /\ cout.op = "none"
    /\ cin.kind = "stats"
    /\ cout' = [op |-> "stats",
                result |-> calculateStats(cin.records, cin.referenceData),
                again |-> calculateStats([i \in 1..Len(cin.records) |-> cin.records[order[i]]],
                                         cin.referenceData)]
    /\ UNCHANGED <<KEY, env, issued, last, cin>>

DownloadsNext ==
    \/ /\ cin.kind = "downloads"
       /\ \E order \in Permutations(1..Len(join(cin.files))), cut \in 0..Len(join(cin.files)) :
             NormalizeDownloads(order, cut)
    \/ /\ cin.kind = "stats"
       /\ \E order \in RecordOrders(Len(cin.records)) : CalculateStats(order)

SpecDownloads == DownloadsInit /\ [][DownloadsNext]_vars

-----------------------------------------------------------------------------
(* The claims about the download statistics. *)

AllRows == join(cin.files)

\* the distinct non-empty trimmed values of a column
ColumnValues(column) == {trim(AllRows[i][column]) : i \in 1..Len(AllRows)} \ {<<>>}

MappingOf == [Version |-> "versions", DeviceModel |-> "devices", OSVersion |-> "osVersions",
              Locale |-> "locales", Country |-> "countries", Carrier |-> "carriers"]

\* the object maps the values of the set, each to the id that is its rank in
\* ascending order of code units
IsRankDictionary(obj, values) ==
    /\ Len(obj.v) = Cardinality(values)
    /\ {obj.v[i].k : i \in 1..Len(obj.v)} = values
    /\ \A i \in 1..Len(obj.v) :
          obj.v[i].v = JsNum(1 + Cardinality({u \in values : StrLess(u, obj.v[i].k)}))

\* C12: for each categorical column normalizeDownloads gives the ids 1..k to
\* the k distinct non-empty trimmed values of all the files, in ascending
\* order of the values, and the same rows in any other order and split into
\* files give the same dictionaries.
C12_SortedDictionaries ==
    cout.op = "normalize" =>
        /\ \A i \in 1..Len(Categorical) :
              IsRankDictionary(cout.result.mappings[MappingOf[Categorical[i]]],
                               ColumnValues(Categorical[i]))
        /\ cout.again = cout.result.mappings

\* versions '9' and then '10' in two files: ids in sorted order are not ids
\* in order of appearance
C12_Witness ==
    /\ cout.op = "normalize"
    /\ Len(cin.files[1]) = 1 /\ Len(cin.files[2]) >= 1
    /\ cin.files[1][1].Version = <<57>>
    /\ cin.files[2][1].Version = <<49, 48>>
    /\ hasOwn(cout.result.mappings.versions.v, <<49, 48>>)
    /\ getOwn(cout.result.mappings.versions.v, <<49, 48>>) = JsNum(1)
    /\ getOwn(cout.result.mappings.versions.v, <<57>>) = JsNum(2)

\* the normalized records the run returned, product after product
Emitted ==
    join([i \in 1..Len(cout.result.normalizedRecords) |-> cout.result.normalizedRecords[i].v])

\* the labels the aggregator's lookup gives the ids of a normalized record,
\* over the mapping files the run wrote
ResolvedLabels(rec) ==
    LET referenceData == loadReferenceData(cout.result.written.json)
    IN  [Version |-> lookupName(referenceData.versions, rec.VersionId),
         DeviceModel |-> lookupName(referenceData.devices, rec.DeviceId),
         OSVersion |-> lookupName(referenceData.osVersions, rec.OSId),
         Locale |-> lookupName(referenceData.locales, rec.LocaleId),
         Country |-> lookupName(referenceData.countries, rec.CountryId),
         Carrier |-> lookupName(referenceData.carriers, rec.CarrierId)]

\* C14: the files a run writes hold the inverse of each dictionary, so that
\* the aggregator's lookup resolves every id of every emitted record to the
\* trimmed raw value of a row the record came from, never to 'Unknown (id)'.
C14_InverseResolves ==
    cout.op = "normalize" =>
        \A n \in 1..Len(Emitted) :
            \E r \in 1..Len(AllRows) :
                /\ AllRows[r].ProductName = Emitted[n].ProductName
                /\ epochSeconds(AllRows[r].DateTime) = Emitted[n].DateTime
                /\ \A i \in 1..Len(Categorical) :
                      ResolvedLabels(Emitted[n])[Categorical[i]]
                          = JsStr(trim(AllRows[r][Categorical[i]]))

\* what the written files do hold: each dictionary itself, from a trimmed
\* value to its id, which an emitted record carries
Downloads_ForwardResolves ==
    cout.op = "normalize" =>
        \A n \in 1..Len(Emitted) :
            \E r \in 1..Len(AllRows) :
                LET referenceData == loadReferenceData(cout.result.written.json)
                    idOf(name, column) == getOwn(referenceData[name].v, trim(AllRows[r][column]))
                IN  /\ ~isInvalid(AllRows[r])
                    /\ AllRows[r].ProductName = Emitted[n].ProductName
                    /\ epochSeconds(AllRows[r].DateTime) = Emitted[n].DateTime
                    /\ idOf("versions", "Version") = JsNum(Emitted[n].VersionId)
                    /\ idOf("devices", "DeviceModel") = JsNum(Emitted[n].DeviceId)
                    /\ idOf("osVersions", "OSVersion") = JsNum(Emitted[n].OSId)
                    /\ idOf("locales", "Locale") = JsNum(Emitted[n].LocaleId)
                    /\ idOf("countries", "Country") = JsNum(Emitted[n].CountryId)
                    /\ idOf("carriers", "Carrier") = JsNum(Emitted[n].CarrierId)

\* none of the eight fields of the row is blank after trimming
IsComplete(record) ==
    /\ ~isInvalid(record)
    /\ trim(record.ProductName) # <<>>
    /\ trim(record.FileBundleName) # <<>>

\* C15: normalizeDownloads emits one normalized record for each row none of
\* whose six categorical fields and none of whose ProductName and
\* FileBundleName is blank after trimming, and none for any other row.
C15_EmittedIffComplete ==
    cout.op = "normalize" =>
        Len(Emitted) = Cardinality({r \in 1..Len(AllRows) : IsComplete(AllRows[r])})

\* the rows the code does emit: those whose six categorical fields are not
\* blank, whatever their ProductName and FileBundleName
Downloads_EmittedIffCategorical ==
    cout.op = "normalize" =>
        Len(Emitted) = Cardinality({r \in 1..Len(AllRows) : ~isInvalid(AllRows[r])})

Breakdowns == <<"downloadsByCountry", "downloadsByVersion", "downloadsByDevice",
                "downloadsByCarrier", "downloadsByOS", "downloadsByLocale">>

\* hundredths is count / total * 100 rounded to two decimals: no number of
\* hundredths is nearer to the quotient
IsRound2(hundredths, count, total) ==
    LET distance == hundredths * total - count * 10000
    IN  /\ total > 0
        /\ 2 * distance <= total
        /\ 2 * distance >= -total

\* C19: in every breakdown of calculateStats the percentage of a category is
\* round2(count / totalCount * 100) with totalCount the number of all the
\* records, which is totalDownloads and the sum of the breakdown's counts;
\* with no records every breakdown is empty and totalDownloads is 0.
C19_Percentages ==
    cout.op = "stats" =>
        /\ cout.result.totalDownloads = Len(cin.records)
        /\ \A b \in 1..Len(Breakdowns) :
              LET items == cout.result[Breakdowns[b]]
              IN  /\ sumDownloads(items) = Len(cin.records)
                  /\ \A i \in 1..Len(items) :
                        IsRound2(items[i].percentage, items[i].downloads, Len(cin.records))
                  /\ (Len(cin.records) = 0 => items = <<>>)

\* seven records of six versions: topVersions is cut to five of them and the
\* percentages of the six, sevenths of the whole, are not whole numbers
C19_Witness ==
    /\ cout.op = "stats"
    /\ Len(cin.records) = 7
    /\ Len(cout.result.downloadsByVersion) = 6
    /\ Len(cout.result.topVersions) = 5
    /\ cout.result.downloadsByVersion[1].percentage = 2857
    /\ cout.result.downloadsByVersion[6].percentage = 1429

-----------------------------------------------------------------------------
(* The auto-block reports (part_001).  A report is what csv-parse returns  *)
(* for a row with cast: true: user_id is a number or a string, given here  *)
(* as the JSON value it is written as, the address or term is a string     *)
(* and count a number.                                                     *)

\* String.prototype.includes for one code unit
includes(s, c) == \E i \in 1..Len(s) : s[i] = c

\* randomBytes(IV_LEN) at the n-th encryption of a run: no two alike
nthNonce(n) == [i \in 1..IV_LEN |-> n % 256]

\* the positions at which a key appears for the first time, in order: the
\* order of the entries of a Map that was filled key by key
firstPositions(keys) ==
    LET firsts == {i \in 1..Len(keys) : \A j \in 1..(i - 1) : keys[j] # keys[i]}
    IN  [k \in 1..Cardinality(firsts) |->
            CHOOSE i \in firsts : Cardinality({j \in firsts : j < i}) = k - 1]

\* k.user_id.toString().includes('@')
IsEmail(id) == id.t = "str" /\ includes(id.v, 64)

\* lines 95-106 with KEY = K.  An address takes the next number at its first
\* record and is encrypted there, the n-th new address by the n-th call of
\* encrypt; its later records find that number in emailToUserId.  No address
\* is an array index or '__proto__', so the two objects keep the order in
\* which the addresses came.
assignUserIds(K, records, envSecret) ==
    LET ids == SelectSeq([i \in 1..Len(records) |-> records[i].user_id], IsEmail)
        emails == [i \in 1..Len(ids) |-> ids[i].v]
        first == firstPositions(emails)
        nextUserId == Len(first)
        userId(email) == CHOOSE n \in 1..nextUserId : emails[first[n]] = email
        encrypted[n \in 0..nextUserId] ==
            IF n = 0 THEN [KEY |-> K, value |-> <<>>]
            ELSE encrypt(encrypted[n - 1].KEY, envSecret, emails[first[n]], nthNonce(n))
    IN  [records |->
             [i \in 1..Len(records) |->
                 IF IsEmail(records[i].user_id)
                 THEN [records[i] EXCEPT !.user_id = JsNum(userId(@.v))]
                 ELSE records[i]],
         emailToEncryptedEmail |->
             fromEntries(<<>>, [n \in 1..nextUserId |->
                                   [k |-> emails[first[n]], v |-> JsStr(encrypted[n].value)]]),
         emailToUserId |->
             fromEntries(<<>>, [n \in 1..nextUserId |-> [k |-> emails[first[n]], v |-> JsNum(n)]]),
         KEY |-> encrypted[nextUserId].KEY]

\* String(value) of a number or a string
toString(v) == IF v.t = "num" THEN numberToString(v.v) ELSE v.v

\* lines 108-114: 'user_id,address,count' and a line for each record
addressCsv(addresses) ==
    joinWith(<<<<117, 115, 101, 114, 95, 105, 100, 44, 97, 100, 100, 114, 101, 115, 115, 44,
                 99, 111, 117, 110, 116>>>> \o
             [i \in 1..Len(addresses) |->
                 joinWith(<<toString(addresses[i].user_id), addresses[i].address,
                            numberToString(addresses[i].count)>>, <<44>>)],
             <<10>>)

\* a keyword record as JSON.stringify sees it: user_id, term, count
keywordJson(k) ==
    JsObj(<<[k |-> <<117, 115, 101, 114, 95, 105, 100>>, v |-> k.user_id],
            [k |-> <<116, 101, 114, 109>>, v |-> JsStr(k.term)],
            [k |-> <<99, 111, 117, 110, 116>>, v |-> JsNum(k.count)]>>)

\* lines 124-128
userIdToEmail(emailToUserId, emailToEncryptedEmail) ==
    LET inverted == invertObject(JsObj(emailToUserId))
    IN  JsObj([i \in 1..Len(inverted.v) |->
                  [k |-> inverted.v[i].k,
                   v |-> getOwn(emailToEncryptedEmail, inverted.v[i].v.v)]])

\* lines 108-130: the three files written for the records of the two exports
writtenFiles(addresses, terms, emailToUserId, emailToEncryptedEmail) ==
    [address |-> compressString(addressCsv(addresses)),
     keywords |-> compressJson(JsArr([i \in 1..Len(terms) |-> keywordJson(terms[i])]), TRUE),
     userToEmail |-> stringify(userIdToEmail(emailToUserId, emailToEncryptedEmail))]

\* lines 95-131, run being the outcome of the loop over the n addresses and
\* the keywords
optimizedExports(run, n) ==
    [KEY |-> run.KEY, err |-> NoError, emailToUserId |-> run.emailToUserId,
     addresses |-> Slice(run.records, 1, n),
     keywords |-> Slice(run.records, n + 1, Len(run.records)),
     written |-> writtenFiles(Slice(run.records, 1, n),
                              Slice(run.records, n + 1, Len(run.records)),
                              run.emailToUserId, run.emailToEncryptedEmail)]

\* lines 75-131, init being the outcome of the initSecrets of line 75
optimizeAddressesWith(init, envSecret, addresses, keywords) ==
    IF init.err # NoError
    THEN [KEY |-> init.KEY, err |-> init.err, emailToUserId |-> <<>>,
          addresses |-> addresses, keywords |-> keywords, written |-> <<>>]
    ELSE optimizedExports(assignUserIds(init.KEY, addresses \o keywords, envSecret),
                          Len(addresses))

\* lines 74-131 with KEY = K: the key and the error afterwards, the
\* dictionary of line 92, the records and the three files written
optimizeAddresses(K, envSecret, addresses, keywords) ==
    optimizeAddressesWith(initSecrets(K, Undefined, envSecret), envSecret, addresses, keywords)

\* String.prototype.toLowerCase, for strings of ASCII characters
toLowerCase(s) == [i \in 1..Len(s) |-> IF s[i] >= 65 /\ s[i] <= 90 THEN s[i] + 32 ELSE s[i]]

\* String.prototype.localeCompare, for strings of ASCII letters: the letters
\* decide whatever their case, and between strings of the same letters the
\* first difference of case does, the lower case first
localeCompare(a, b) ==
    LET la == toLowerCase(a)
        lb == toLowerCase(b)
        first == CHOOSE i \in 1..Len(a) : a[i] # b[i] /\ \A j \in 1..(i - 1) : a[j] = b[j]
    IN  IF la # lb THEN (IF StrLess(la, lb) THEN -1 ELSE 1)
        ELSE IF a = b THEN 0
        ELSE IF a[first] > b[first] THEN -1 ELSE 1

\* the comparators of the sorts: lines 362-368 and 370-376 (entries by count),
\* 211-219 and 249-257 (groups), 328-336 (reporters)
compare(by, field, a, b) ==
    CASE by = "count" ->
             IF b.count # a.count THEN b.count - a.count
             ELSE localeCompare(a[field], b[field])
      [] by = "blocks" ->
             IF b.blocks # a.blocks THEN b.blocks - a.blocks
             ELSE IF b.reports # a.reports THEN b.reports - a.reports
             ELSE localeCompare(a[field], b[field])
      [] OTHER ->
             IF b.totalBlocks # a.totalBlocks THEN b.totalBlocks - a.totalBlocks
             ELSE IF b.totalReports # a.totalReports THEN b.totalReports - a.totalReports
             ELSE b.user_id - a.user_id

\* Array.prototype.sort with one of the comparators, a stable sort: an item
\* comes after the items that compare lower and after the earlier items that
\* compare equal
sortBy(by, field, items) ==
    LET before(j, i) == IF j < i THEN compare(by, field, items[j], items[i]) <= 0
                        ELSE j # i /\ compare(by, field, items[j], items[i]) < 0
        rank == [i \in 1..Len(items) |-> 1 + Cardinality({j \in 1..Len(items) : before(j, i)})]
    IN  [r \in 1..Len(items) |-> items[CHOOSE i \in 1..Len(items) : rank[i] = r]]

\* the sum of the counts of the entries
RECURSIVE sumRange(_, _, _)
sumRange(entries, lo, hi) ==
    IF lo > hi THEN 0
    ELSE IF lo = hi THEN entries[lo].count
    ELSE sumRange(entries, lo, (lo + hi) \div 2) + sumRange(entries, (lo + hi) \div 2 + 1, hi)

sumCounts(entries) == sumRange(entries, 1, Len(entries))

zeroCounts(entries) == Cardinality({i \in 1..Len(entries) : entries[i].count = 0})

\* lines 133-182
buildSummary(addresses, keywords) ==
    [totalReports |-> Len(addresses) + Len(keywords),
     totalReportedAddresses |-> Len(addresses),
     totalReportedKeywords |-> Len(keywords),
     uniqueUsers |-> Cardinality({addresses[i].user_id : i \in 1..Len(addresses)}
                                 \cup {keywords[i].user_id : i \in 1..Len(keywords)}),
     uniqueAddresses |-> Cardinality({toLowerCase(addresses[i].address) : i \in 1..Len(addresses)}),
     uniqueKeywords |-> Cardinality({keywords[i].term : i \in 1..Len(keywords)}),
     totalBlocksFromAddresses |-> sumCounts(addresses),
     totalBlocksFromKeywords |-> sumCounts(keywords),
     totalBlocks |-> sumCounts(addresses) + sumCounts(keywords),
     zeroBlockReports |-> zeroCounts(addresses) + zeroCounts(keywords)]

\* lines 189-201 (227-239 for the terms): the values of the Map of aggregates
\* after the loop, each with the name of the entry that created it
aggregate(entries, field) ==
    LET keys == [i \in 1..Len(entries) |-> toLowerCase(entries[i][field])]
        first == firstPositions(keys)
        group(k) == SelectSeq(entries, LAMBDA entry : toLowerCase(entry[field]) = keys[first[k]])
    IN  [k \in 1..Len(first) |->
            [key |-> keys[first[k]],
             shown |-> entries[first[k]][field],
             reports |-> Len(group(k)),
             reporters |-> {group(k)[i].user_id : i \in 1..Len(group(k))},
             blocks |-> sumCounts(group(k))]]

\* Number.parseFloat((blocks / reports).toFixed(2)), in hundredths
averageBlocksPerReport(blocks, reports) ==
    IF reports > 0 THEN (2 * blocks * 100 + reports) \div (2 * reports) ELSE 0

\* lines 186-222 over the field 'address' and lines 224-260 over 'term'
buildTop(entries, field) ==
    LET aggregates == aggregate(entries, field)
        top == [i \in 1..Len(aggregates) |->
                   [name \in {field} |-> aggregates[i].shown]
                   @@ [reports |-> aggregates[i].reports,
                       reporters |-> Cardinality(aggregates[i].reporters),
                       blocks |-> aggregates[i].blocks,
                       averageBlocksPerReport |->
                           averageBlocksPerReport(aggregates[i].blocks, aggregates[i].reports)]]
        sorted == sortBy("blocks", field, top)
    IN  Slice(sorted, 1, Min(10, Len(sorted)))

buildTopAddresses(addresses) == buildTop(addresses, "address")

buildTopKeywords(keywords) == buildTop(keywords, "term")

\* lines 275-315: the values of the Map of reporters after the two loops
aggregateReporters(addresses, keywords) ==
    LET ids == [i \in 1..(Len(addresses) + Len(keywords)) |->
                   IF i <= Len(addresses) THEN addresses[i].user_id
                   ELSE keywords[i - Len(addresses)].user_id]
        first == firstPositions(ids)
        reported(entries, k) == SelectSeq(entries, LAMBDA entry : entry.user_id = ids[first[k]])
    IN  [k \in 1..Len(first) |->
            [user_id |-> ids[first[k]],
             reportedAddresses |-> Len(reported(addresses, k)),
             reportedKeywords |-> Len(reported(keywords, k)),
             zeroBlockReports |-> zeroCounts(reported(addresses, k))
                                  + zeroCounts(reported(keywords, k)),
             blocksFromAddresses |-> sumCounts(reported(addresses, k)),
             blocksFromKeywords |-> sumCounts(reported(keywords, k))]]

\* buildTopReporters without the sort of lines 328-336
buildTopReporters_unsorted(addresses, keywords) ==
    LET aggregates == aggregateReporters(addresses, keywords)
        top == [i \in 1..Len(aggregates) |->
                   [user_id |-> aggregates[i].user_id,
                    reportedAddresses |-> aggregates[i].reportedAddresses,
                    reportedKeywords |-> aggregates[i].reportedKeywords,
                    zeroBlockReports |-> aggregates[i].zeroBlockReports,
                    totalReports |-> aggregates[i].reportedAddresses + aggregates[i].reportedKeywords,
                    blocksFromAddresses |-> aggregates[i].blocksFromAddresses,
                    blocksFromKeywords |-> aggregates[i].blocksFromKeywords,
                    totalBlocks |->
                        aggregates[i].blocksFromAddresses + aggregates[i].blocksFromKeywords]]
    IN  Slice(top, 1, Min(10, Len(top)))

\* lines 262-339
buildTopReporters(addresses, keywords) ==
    LET aggregates == aggregateReporters(addresses, keywords)
        top == [i \in 1..Len(aggregates) |->
                   [user_id |-> aggregates[i].user_id,
                    reportedAddresses |-> aggregates[i].reportedAddresses,
                    reportedKeywords |-> aggregates[i].reportedKeywords,
                    zeroBlockReports |-> aggregates[i].zeroBlockReports,
                    totalReports |-> aggregates[i].reportedAddresses + aggregates[i].reportedKeywords,
                    blocksFromAddresses |-> aggregates[i].blocksFromAddresses,
                    blocksFromKeywords |-> aggregates[i].blocksFromKeywords,
                    totalBlocks |->
                        aggregates[i].blocksFromAddresses + aggregates[i].blocksFromKeywords]]
        sorted == sortBy("totalBlocks", "user_id", top)
    IN  Slice(sorted, 1, Min(10, Len(sorted)))

\* loadAutoBlockStats without the sorts of lines 362-376
loadAutoBlockStats_unsorted(addresses, keywords) ==
    [summary |-> buildSummary(addresses, keywords),
     topAddresses |-> buildTopAddresses(addresses),
     topKeywords |-> buildTopKeywords(keywords),
     topReporters |-> buildTopReporters(addresses, keywords),
     addresses |-> addresses,
     keywords |-> keywords]

\* lines 347-386 over the records loaded from the two files
loadAutoBlockStats(addresses, keywords) ==
    LET sortedAddresses == sortBy("count", "address", addresses)
        sortedKeywords == sortBy("count", "term", keywords)
    IN  [summary |-> buildSummary(sortedAddresses, sortedKeywords),
         topAddresses |-> buildTopAddresses(sortedAddresses),
         topKeywords |-> buildTopKeywords(sortedKeywords),
         topReporters |-> buildTopReporters(sortedAddresses, sortedKeywords),
         addresses |-> sortedAddresses,
         keywords |-> sortedKeywords]

-----------------------------------------------------------------------------
(* SpecAutoBlock: optimizeAddresses applied once to two raw exports of up  *)
(* to MaxReports and MaxTerms reports, and loadAutoBlockStats applied once *)
(* to as many loaded reports, or to up to MaxGroups reports that fall in   *)
(* as many groups.                                                         *)

MaxReports == 3
MaxTerms == 2
MaxGroups == 12

\* b@x.com,s,1   a@x.com,s,0   7,t,2
RawAddressPool ==
    <<[user_id |-> JsStr(<<98, 64, 120, 46, 99, 111, 109>>), address |-> <<115>>, count |-> 1],
     [user_id |-> JsStr(<<97, 64, 120, 46, 99, 111, 109>>), address |-> <<115>>, count |-> 0],
     [user_id |-> JsNum(7), address |-> <<116>>, count |-> 2]>>

\* a@x.com,w,1   c@x.com,w,0
RawKeywordPool ==
    <<[user_id |-> JsStr(<<97, 64, 120, 46, 99, 111, 109>>), term |-> <<119>>, count |-> 1],
     [user_id |-> JsStr(<<99, 64, 120, 46, 99, 111, 109>>), term |-> <<119>>, count |-> 0]>>

\* 1,ab,2   2,Ab,2   3,b,2   2,B,0   1,c,4
AddressPool ==
    {[user_id |-> 1, address |-> <<97, 98>>, count |-> 2],
     [user_id |-> 2, address |-> <<65, 98>>, count |-> 2],
     [user_id |-> 3, address |-> <<98>>, count |-> 2],
     [user_id |-> 2, address |-> <<66>>, count |-> 0],
     [user_id |-> 1, address |-> <<99>>, count |-> 4]}

\* 1,x,2   3,X,2   2,y,0
KeywordPool ==
    {[user_id |-> 1, term |-> <<120>>, count |-> 2],
     [user_id |-> 3, term |-> <<88>>, count |-> 2],
     [user_id |-> 2, term |-> <<121>>, count |-> 0]}

SeqsUpTo(pool, n) == UNION {[1..m -> pool] : m \in 0..n}

\* the ways to pick up to n records of a list, and the records picked
Picks(list, n) == UNION {[1..m -> 1..Len(list)] : m \in 0..n}

Picked(list, pick) == [i \in 1..Len(pick) |-> list[pick[i]]]

\* n reports by the given number of users of as many addresses as groups
ManyAddresses(n, users, groups) ==
    [i \in 1..n |-> [user_id |-> 1 + (i % users), address |-> <<97 + (i % groups)>>,
                     count |-> i % 3]]

ManyKeywords(n, users, groups) ==
    [i \in 1..n |-> [user_id |-> 1 + ((i + 1) % users), term |-> <<97 + ((i * i) % groups)>>,
                     count |-> (i + 1) % 3]]

AutoBlockInit ==
    /\ KEY = NULL
    /\ env \in {SecretHex, Undefined}
    /\ issued = <<>>
    /\ last = NoCall
    /\ \/ \E addresses \in Picks(RawAddressPool, MaxReports),
             keywords \in Picks(RawKeywordPool, MaxTerms) :
             cin = [kind |-> "raw", addresses |-> Picked(RawAddressPool, addresses),
                    keywords |-> Picked(RawKeywordPool, keywords)]
       \/ /\ env = SecretHex
          /\ \/ \E addresses \in SeqsUpTo(AddressPool, MaxReports),
                   keywords \in SeqsUpTo(KeywordPool, MaxTerms) :
                   cin = [kind |-> "loaded", addresses |-> addresses, keywords |-> keywords]
             \/ \E n \in 0..MaxGroups, users \in {2, MaxGroups}, groups \in 1..MaxGroups :
                   cin = [kind |-> "loaded",
                          addresses |-> ManyAddresses(n, users, groups),
                          keywords |-> ManyKeywords(n, users, groups)]
    /\ cout = NoOutput

\* optimizeAddresses(addressCsvFile, keywordsCsvFile)
OptimizeAddresses ==
    /\ cout.op = "none"
    /\ cin.kind = "raw"
    /\ LET r == optimizeAddresses(KEY, env, cin.addresses, cin.keywords)
       IN  /\ KEY' = r.KEY
           /\ cout' = [op |-> "optimize", result |-> r]
    /\ UNCHANGED <<env, issued, last, cin>>

\* the orders in which the n records of a file are tried: all of them for a
\* short file, the order of the file, its reverse and a rotation for a long one
Orders(n) ==
    IF n <= MaxReports THEN Permutations(1..n)
    ELSE {[i \in 1..n |-> i], [i \in 1..n |-> n + 1 - i], [i \in 1..n |-> 1 + (i % n)]}

Reordered(records, order) == [i \in 1..Len(records) |-> records[order[i]]]

\* loadAutoBlockStats(), and once more with the records of the two files in
\* another order
LoadAutoBlockStats(addressOrder, keywordOrder) ==
    /\ cout.op = "none"
    /\ cin.kind = "loaded"
    /\ LET again == loadAutoBlockStats(Reordered(cin.addresses, addressOrder),
                                       Reordered(cin.keywords, keywordOrder))
       IN  cout' = [op |-> "stats",
                    result |-> loadAutoBlockStats(cin.addresses, cin.keywords),
                    again |-> [summary |-> again.summary,
                               topAddresses |-> again.topAddresses,
                               topKeywords |-> again.topKeywords,
                               topReporters |-> again.topReporters]]
    /\ UNCHANGED <<KEY, env, issued, last, cin>>

AutoBlockNext ==
    \/ OptimizeAddresses
    \/ /\ cin.kind = "loaded"
       /\ \E addressOrder \in Orders(Len(cin.addresses)), keywordOrder \in Orders(Len(cin.keywords)) :
             LoadAutoBlockStats(addressOrder, keywordOrder)

SpecAutoBlock == AutoBlockInit /\ [][AutoBlockNext]_vars

-----------------------------------------------------------------------------
(* The claims about the auto-block reports. *)

\* C13: the dictionary optimizeAddresses builds gives the distinct values
\* the ids 1..k in their ascending order, not in the order of their first
\* appearance: [b@x.com, a@x.com, a@x.com] gives { a@x.com: 1, b@x.com: 2 }.
C13_SortedUserIds ==
    (cout.op = "optimize" /\ cout.result.err = NoError) =>
        LET records == cin.addresses \o cin.keywords
        IN  IsRankDictionary(JsObj(cout.result.emailToUserId),
                             {records[i].user_id.v :
                                 i \in {j \in 1..Len(records) : records[j].user_id.t = "str"}})

\* the position of the first record that reports under the e-mail address
FirstAppearance(email) ==
    LET records == cin.addresses \o cin.keywords
    IN  CHOOSE i \in 1..Len(records) :
            /\ records[i].user_id = JsStr(email)
            /\ \A j \in 1..(i - 1) : records[j].user_id # JsStr(email)

\* the ids the code does give: 1..k in the order of first appearance
AutoBlock_FirstAppearanceIds ==
    (cout.op = "optimize" /\ cout.result.err = NoError) =>
        LET d == cout.result.emailToUserId
        IN  /\ \A i \in 1..Len(d) : d[i].v = JsNum(i)
            /\ \A i, j \in 1..Len(d) : i < j => FirstAppearance(d[i].k) < FirstAppearance(d[j].k)
            /\ \A i \in 1..Len(cin.addresses \o cin.keywords) :
                  LET id == (cin.addresses \o cin.keywords)[i].user_id
                  IN  id.t = "str" => hasOwn(d, id.v)

\* the groups of the records of a file: the lower-cased values of the field
GroupKeys(entries, field) == {toLowerCase(entries[i][field]) : i \in 1..Len(entries)}

GroupOf(entries, field, key) == SelectSeq(entries, LAMBDA e : toLowerCase(e[field]) = key)

ReportsBy(entries, user) == SelectSeq(entries, LAMBDA e : e.user_id = user)

\* a group of the given blocks and reports ranks before another
RanksBefore(blocks, reports, otherBlocks, otherReports, keyBefore) ==
    \/ blocks > otherBlocks
    \/ blocks = otherBlocks /\ reports > otherReports
    \/ blocks = otherBlocks /\ reports = otherReports /\ keyBefore

\* top is the first ten of the groups of the entries, ranked by blocks
\* descending, reports descending and key ascending
IsTopTen(top, entries, field) ==
    LET keys == GroupKeys(entries, field)
        keyAt(i) == toLowerCase(top[i][field])
        blocks(key) == sumCounts(GroupOf(entries, field, key))
        reports(key) == Len(GroupOf(entries, field, key))
    IN  /\ Len(top) = Min(10, Cardinality(keys))
        /\ \A i \in 1..Len(top) :
              /\ keyAt(i) \in keys
              /\ top[i].blocks = blocks(keyAt(i))
              /\ top[i].reports = reports(keyAt(i))
        /\ \A i, j \in 1..Len(top) :
              i < j => RanksBefore(top[i].blocks, top[i].reports, top[j].blocks, top[j].reports,
                                   StrLess(keyAt(i), keyAt(j)))
        /\ \A key \in keys \ {keyAt(i) : i \in 1..Len(top)} :
              \A i \in 1..Len(top) :
                  ~RanksBefore(blocks(key), reports(key), top[i].blocks, top[i].reports,
                               StrLess(key, keyAt(i)))

\* top is the first ten of the reporters, ranked by blocks descending,
\* reports descending and user id in the given order
IsTopTenReporters(top, addresses, keywords, order) ==
    LET users == {addresses[i].user_id : i \in 1..Len(addresses)}
                 \cup {keywords[i].user_id : i \in 1..Len(keywords)}
        blocks(u) == sumCounts(ReportsBy(addresses, u)) + sumCounts(ReportsBy(keywords, u))
        reports(u) == Len(ReportsBy(addresses, u)) + Len(ReportsBy(keywords, u))
        idBefore(u, v) == IF order = "ascending" THEN u < v ELSE u > v
    IN  /\ Len(top) = Min(10, Cardinality(users))
        /\ \A i \in 1..Len(top) :
              /\ top[i].user_id \in users
              /\ top[i].totalBlocks = blocks(top[i].user_id)
              /\ top[i].totalReports = reports(top[i].user_id)
        /\ \A i, j \in 1..Len(top) :
              i < j => RanksBefore(top[i].totalBlocks, top[i].totalReports,
                                   top[j].totalBlocks, top[j].totalReports,
                                   idBefore(top[i].user_id, top[j].user_id))
        /\ \A u \in users \ {top[i].user_id : i \in 1..Len(top)} :
              \A i \in 1..Len(top) :
                  ~RanksBefore(blocks(u), reports(u), top[i].totalBlocks, top[i].totalReports,
                               idBefore(u, top[i].user_id))

\* C16: each leaderboard is the first 10 of all its groups sorted by blocks
\* descending, then reports descending, then group key ascending; it never
\* has more than 10 entries and no excluded group ranks before an included
\* one.
C16_TopTenKeyAscending ==
    cout.op = "stats" =>
        /\ IsTopTen(cout.result.topAddresses, cin.addresses, "address")
        /\ IsTopTen(cout.result.topKeywords, cin.keywords, "term")
        /\ IsTopTenReporters(cout.result.topReporters, cin.addresses, cin.keywords, "ascending")

\* C16 as the code has it: the same, except that reporters that tie on blocks
\* and reports come in descending order of user id.
C16_TopTen ==
    cout.op = "stats" =>
        /\ IsTopTen(cout.result.topAddresses, cin.addresses, "address")
        /\ IsTopTen(cout.result.topKeywords, cin.keywords, "term")
        /\ IsTopTenReporters(cout.result.topReporters, cin.addresses, cin.keywords, "descending")

\* twelve addresses reported by twelve users: two groups and two reporters
\* are cut off, and reporters tie on blocks and reports
C16_Witness ==
    /\ cout.op = "stats"
    /\ Cardinality(GroupKeys(cin.addresses, "address")) = 12
    /\ Len(cout.result.topAddresses) = 10
    /\ Len(cout.result.topReporters) = 10
    /\ cout.result.topReporters[1].totalBlocks = cout.result.topReporters[2].totalBlocks
    /\ cout.result.topReporters[1].totalReports = cout.result.topReporters[2].totalReports
    /\ cout.result.topAddresses[1].blocks = cout.result.topAddresses[2].blocks
    /\ cout.result.topAddresses[1].reports = cout.result.topAddresses[2].reports

C18_Summary ==
    cout.op = "stats" =>
        LET s == cout.result.summary
        IN  /\ s.totalReports = Len(cin.addresses) + Len(cin.keywords)
            /\ s.totalBlocks = sumCounts(cin.addresses) + sumCounts(cin.keywords)
            /\ s.zeroBlockReports = zeroCounts(cin.addresses) + zeroCounts(cin.keywords)
            /\ s.uniqueUsers = Cardinality({cin.addresses[i].user_id : i \in 1..Len(cin.addresses)}
                                           \cup {cin.keywords[i].user_id : i \in 1..Len(cin.keywords)})
            /\ s.uniqueAddresses = Cardinality(GroupKeys(cin.addresses, "address"))
            /\ s.uniqueKeywords = Cardinality(GroupKeys(cin.keywords, "term"))

\* the summary the code does return: the keywords are counted as written
AutoBlock_SummaryAsWritten ==
    cout.op = "stats" =>
        LET s == cout.result.summary
        IN  /\ s.totalReports = Len(cin.addresses) + Len(cin.keywords)
            /\ s.totalBlocks = sumCounts(cin.addresses) + sumCounts(cin.keywords)
            /\ s.zeroBlockReports = zeroCounts(cin.addresses) + zeroCounts(cin.keywords)
            /\ s.uniqueUsers = Cardinality({cin.addresses[i].user_id : i \in 1..Len(cin.addresses)}
                                           \cup {cin.keywords[i].user_id : i \in 1..Len(cin.keywords)})
            /\ s.uniqueAddresses = Cardinality(GroupKeys(cin.addresses, "address"))
            /\ s.uniqueKeywords = Cardinality({cin.keywords[i].term : i \in 1..Len(cin.keywords)})
            /\ s.uniqueKeywords >= Len(cout.result.topKeywords)

-----------------------------------------------------------------------------
(* The session analytics (part_000).  The artifact is the file that        *)
(* optimizeAnalytics writes: compressJson of an array of sessions, each    *)
(* with its events; an event whose c held a link carries the token of the  *)
(* link and _redacted: true.                                               *)

\* '_redacted', 'c', 'e', 'events'
RedactedKey == <<95, 114, 101, 100, 97, 99, 116, 101, 100>>
ContextKey == <<99>>
EventKey == <<101>>
EventsKey == <<101, 118, 101, 110, 116, 115>>

\* the truthiness of a string or undefined
IsSet(s) == s # Undefined /\ s # <<>>

\* lines 67-68 for an event, d being what decrypt(event.c) gave: the key and
\* the error afterwards, and the event
restore(event, d) ==
    IF d.err # NoError THEN [KEY |-> d.KEY, err |-> d.err, event |-> event]
    ELSE [KEY |-> d.KEY, err |-> NoError,
          event |-> JsObj(assignProperty(assignProperty(event.v, RedactedKey, JsBool(FALSE)),
                                         ContextKey, JsStr(d.value)))]

\* lines 66-69 without the test of decryptionKey
loadEvent_noKeyCheck(K, envSecret, event, decryptionKey) ==
    IF hasOwn(event.v, RedactedKey) /\ IsTruthy(getOwn(event.v, RedactedKey))
    THEN restore(event, decrypt(K, envSecret, getOwn(event.v, ContextKey).v))
    ELSE [KEY |-> K, err |-> NoError, event |-> event]

\* lines 66-69 for one event: the key and the error afterwards, and the event
loadEvent(K, envSecret, event, decryptionKey) ==
    IF /\ hasOwn(event.v, RedactedKey) /\ IsTruthy(getOwn(event.v, RedactedKey))
       /\ IsSet(decryptionKey)
    THEN restore(event, decrypt(K, envSecret, getOwn(event.v, ContextKey).v))
    ELSE [KEY |-> K, err |-> NoError, event |-> event]

\* run holds KEY, the error thrown and the events (or the sessions) done; r
\* is the outcome of one more
eventDone(run, r) == [KEY |-> r.KEY, err |-> r.err, done |-> Append(run.done, r.event)]

sessionDone(run, stats, r) ==
    [KEY |-> r.KEY, err |-> r.err,
     done |-> Append(run.done, JsObj(defineOwn(stats.v, EventsKey, JsArr(r.done))))]

\* lines 65-70
RECURSIVE loadEvents(_, _, _, _)
loadEvents(run, events, envSecret, decryptionKey) ==
    IF events = <<>> \/ run.err # NoError THEN run
    ELSE loadEvents(eventDone(run, loadEvent(run.KEY, envSecret, Head(events), decryptionKey)),
                    Tail(events), envSecret, decryptionKey)

\* lines 64-71
RECURSIVE loadSessions(_, _, _, _)
loadSessions(run, analytics, envSecret, decryptionKey) ==
    IF analytics = <<>> \/ run.err # NoError THEN run
    ELSE loadSessions(
             sessionDone(run, Head(analytics),
                         loadEvents([KEY |-> run.KEY, err |-> NoError, done |-> <<>>],
                                    getOwn(Head(analytics).v, EventsKey).v,
                                    envSecret, decryptionKey)),
             Tail(analytics), envSecret, decryptionKey)

\* line 73: what loadAnalytics returns or throws after the loop
loaded(run) ==
    IF run.err # NoError THEN [KEY |-> run.KEY, err |-> run.err, value |-> JsNull]
    ELSE [KEY |-> run.KEY, err |-> NoError, value |-> JsArr(run.done)]

\* lines 60-73, init being the outcome of the initSecrets of line 61
loadAnalyticsWith(init, envSecret, file, decryptionKey) ==
    IF init.err # NoError THEN [KEY |-> init.KEY, err |-> init.err, value |-> JsNull]
    ELSE loaded(loadSessions([KEY |-> init.KEY, err |-> NoError, done |-> <<>>],
                             decompressJson(file).v, envSecret, decryptionKey))

\* lines 57-73, decryptionKey being the second argument or its default
loadAnalyticsUnder(K, envSecret, file, decryptionKey) ==
    loadAnalyticsWith(IF IsSet(decryptionKey) THEN initSecrets(K, decryptionKey, envSecret)
                      ELSE [KEY |-> K, err |-> NoError],
                      envSecret, file, decryptionKey)

\* lines 57-74 with KEY = K.  passed is the second argument, Undefined when
\* the caller gives none
loadAnalytics(K, envSecret, file, passed) ==
    loadAnalyticsUnder(K, envSecret, file, IF passed = Undefined THEN envSecret ELSE passed)

-----
(* SpecAnalytics: loadAnalytics applied once, in a fresh process, to an    *)
(* artifact of up to MaxSessions sessions of up to MaxEvents events each,  *)
(* written under the secret '41424344'.                                    *)

MaxSessions == 2
MaxEvents == 2

\* what encrypt returned to the writer for 'hi' and for e-acute U+1F600
LinkToken(n) ==
    encrypt(NULL, SecretHex, IF n = 1 THEN <<104, 105>> ELSE <<233, 55357, 56832>>,
            nthNonce(n)).value

\* { e: 'OpenLink', c: <token>, _redacted: true } twice, { e: 'Translate',
\* c: '4' } and { e: 'OpenLink', c: 'hi', _redacted: false }
EventPool ==
    <<JsObj(<<[k |-> EventKey, v |-> JsStr(<<79, 112, 101, 110, 76, 105, 110, 107>>)],
             [k |-> ContextKey, v |-> JsStr(LinkToken(1))],
             [k |-> RedactedKey, v |-> JsBool(TRUE)]>>),
     JsObj(<<[k |-> EventKey, v |-> JsStr(<<79, 112, 101, 110, 76, 105, 110, 107>>)],
             [k |-> ContextKey, v |-> JsStr(LinkToken(2))],
             [k |-> RedactedKey, v |-> JsBool(TRUE)]>>),
     JsObj(<<[k |-> EventKey, v |-> JsStr(<<84, 114, 97, 110, 115, 108, 97, 116, 101>>)],
             [k |-> ContextKey, v |-> JsStr(<<52>>)]>>),
     JsObj(<<[k |-> EventKey, v |-> JsStr(<<79, 112, 101, 110, 76, 105, 110, 107>>)],
             [k |-> ContextKey, v |-> JsStr(<<104, 105>>)],
             [k |-> RedactedKey, v |-> JsBool(FALSE)]>>)>>

\* { t: 1704067200, user: 42, events, state: { step: 1 } }
Session(events) ==
    JsObj(<<[k |-> <<116>>, v |-> JsNum(epochSeconds([day |-> 1]))],
            [k |-> <<117, 115, 101, 114>>, v |-> JsNum(42)],
            [k |-> EventsKey, v |-> JsArr(events)],
            [k |-> <<115, 116, 97, 116, 101>>,
             v |-> JsObj(<<[k |-> <<115, 116, 101, 112>>, v |-> JsNum(1)]>>)]>>)

Artifacts ==
    {compressJson(JsArr([s \in 1..Len(picks) |-> Session(Picked(EventPool, picks[s]))]), TRUE) :
        picks \in SeqsUpTo(Picks(EventPool, MaxEvents), MaxSessions)}

AnalyticsInit ==
    /\ KEY = NULL
    /\ env \in {Undefined, SecretHex}
    /\ issued = <<>>
    /\ last = NoCall
    /\ \E file \in Artifacts, passed \in {Undefined, <<>>, SecretBlank, SecretHex, SecretKey32} :
          cin = [kind |-> "artifact", file |-> file, decryptionKey |-> passed]
    /\ cout = NoOutput

\* loadAnalytics(filePath, decryptionKey)
LoadAnalytics ==
    /\ cout.op = "none"
    /\ LET r == loadAnalytics(KEY, env, cin.file, cin.decryptionKey)
       IN  /\ KEY' = r.KEY
           /\ cout' = [op |-> "load", result |-> r]
    /\ UNCHANGED <<env, issued, last, cin>>

AnalyticsNext == LoadAnalytics

SpecAnalytics == AnalyticsInit /\ [][AnalyticsNext]_vars

-----------------------------------------------------------------------------
(* The claim about the session analytics. *)

\* the decryption secret of the call: the one passed, else the environment's
SecretOfCall == IF cin.decryptionKey = Undefined THEN env ELSE cin.decryptionKey

IsMarked(event) == hasOwn(event.v, RedactedKey) /\ IsTruthy(getOwn(event.v, RedactedKey))

EventsOf(stats) == getOwn(stats.v, EventsKey).v

\* C20: loadAnalytics returns, for every event marked redacted, with a
\* decryption secret the event with c replaced by decrypt(c) and the mark
\* cleared, and with no secret the event with its token and its mark; an
\* event that is not marked is returned as it is in both cases.
C20_LoadAnalytics ==
    cout.op = "load" =>
        LET before == decompressJson(cin.file).v
            after == cout.result.value.v
        IN  IF cout.result.err # NoError THEN IsSet(SecretOfCall)
            ELSE /\ Len(after) = Len(before)
                 /\ \A s \in 1..Len(before) :
                       /\ Len(EventsOf(after[s])) = Len(EventsOf(before[s]))
                       /\ \A j \in 1..Len(EventsOf(before[s])) :
                             LET old == EventsOf(before[s])[j]
                                 new == EventsOf(after[s])[j]
                             IN  IF IsMarked(old) /\ IsSet(SecretOfCall)
                                 THEN /\ getOwn(new.v, ContextKey)
                                           = JsStr(decrypt(KEY, env, getOwn(old.v, ContextKey).v).value)
                                      /\ getOwn(new.v, RedactedKey) = JsBool(FALSE)
                                      /\ getOwn(new.v, EventKey) = getOwn(old.v, EventKey)
                                 ELSE new = old

\* the token of 'hi' loaded with the writer's secret, next to an event that
\* is not marked
C20_Witness ==
    /\ cout.op = "load"
    /\ cin.decryptionKey = SecretHex
    /\ cout.result.err = NoError
    /\ Len(cout.result.value.v) = 1
    /\ Len(EventsOf(decompressJson(cin.file).v[1])) = 2
    /\ IsMarked(EventsOf(decompressJson(cin.file).v[1])[1])
    /\ ~IsMarked(EventsOf(decompressJson(cin.file).v[1])[2])
    /\ getOwn(EventsOf(cout.result.value.v[1])[1].v, ContextKey) = JsStr(<<104, 105>>)
    /\ getOwn(EventsOf(cout.result.value.v[1])[1].v, RedactedKey) = JsBool(FALSE)

\* with no secret the marked event keeps its token and its mark
C20_WitnessNoSecret ==
    /\ cout.op = "load"
    /\ ~IsSet(SecretOfCall)
    /\ cout.result.err = NoError
    /\ Len(cout.result.value.v) = 1
    /\ Len(EventsOf(cout.result.value.v[1])) = 1
    /\ getOwn(EventsOf(cout.result.value.v[1])[1].v, ContextKey) = JsStr(LinkToken(1))
    /\ getOwn(EventsOf(cout.result.value.v[1])[1].v, RedactedKey) = JsBool(TRUE)

-----------------------------------------------------------------------------
(* The summary against the leaderboards (part_001). *)

\* C30: the summary's uniqueKeywords is the number of groups buildTopKeywords
\* forms before it cuts the list to ten, and uniqueAddresses is the number of
\* groups buildTopAddresses forms, also when terms or addresses differ only
\* in letter case.
C30_UniqueCountsAreGroups ==
    cout.op = "stats" =>
        /\ cout.result.summary.uniqueKeywords = Len(aggregate(cout.result.keywords, "term"))
        /\ cout.result.summary.uniqueAddresses
               = Len(aggregate(cout.result.addresses, "address"))

\* what the code does keep: the addresses are counted by group, and the
\* keywords are never fewer than their groups
AutoBlock_AddressCountIsGroups ==
    cout.op = "stats" =>
        /\ cout.result.summary.uniqueAddresses
               = Len(aggregate(cout.result.addresses, "address"))
        /\ cout.result.summary.uniqueKeywords >= Len(aggregate(cout.result.keywords, "term"))

-----------------------------------------------------------------------------
\* C24: calculateStats gives the same top lists and the same six breakdowns,
\* entry for entry and in the same order, for the same records handed over in
\* any order, categories tied on downloads included.
C24_OrderIndependent ==
    cout.op = "stats" =>
        \A f \in {"downloadsByCountry", "downloadsByVersion", "downloadsByDevice",
                  "downloadsByCarrier", "downloadsByOS", "downloadsByLocale",
                  "topCountries", "topDevices", "topVersions"} :
            cout.result[f] = cout.again[f]

\* what the code gives instead: every breakdown holds the same entries in
\* either order of the records, each sorted by downloads descending, and
\* the totals agree
Stats_SameEntries ==
    cout.op = "stats" =>
        /\ cout.result.totalDownloads = cout.again.totalDownloads
        /\ cout.result.uniqueDevices = cout.again.uniqueDevices
        /\ \A f \in {"downloadsByCountry", "downloadsByVersion", "downloadsByDevice",
                     "downloadsByCarrier", "downloadsByOS", "downloadsByLocale"} :
              /\ {cout.result[f][i] : i \in 1..Len(cout.result[f])}
                     = {cout.again[f][i] : i \in 1..Len(cout.again[f])}
              /\ Len(cout.result[f]) = Len(cout.again[f])
              /\ \A i \in 1..(Len(cout.again[f]) - 1) :
                     cout.again[f][i].downloads >= cout.again[f][i + 1].downloads

-----------------------------------------------------------------------------
(* SpecProcess: up to MaxCalls calls of loadAnalytics in one process, with *)
(* any decryption keys, over one artifact of one session written under the *)
(* secret '41424344'; a call of initSecrets() by another module of the     *)
(* process may come in between.  KEY lives as long as the process.         *)

MaxCalls == 3

ProcessArtifacts ==
    {compressJson(JsArr(<<Session(Picked(EventPool, pick))>>), TRUE) :
        pick \in Picks(EventPool, MaxEvents) \ {<<>>}}

ProcessInit ==
    /\ KEY = NULL
    /\ env \in {Undefined, SecretHex}
    /\ issued = <<>>
    /\ last = NoCall
    /\ \E file \in ProcessArtifacts : cin = [kind |-> "process", file |-> file]
    /\ cout = [op |-> "none", calls |-> 0]

\* loadAnalytics(filePath, decryptionKey), KEY being what the calls before
\* left
LoadAnalyticsCall(passed) ==
    /\ cin.kind = "process"
    /\ cout.calls < MaxCalls
    /\ LET r == loadAnalytics(KEY, env, cin.file, passed)
       IN  /\ KEY' = r.KEY
           /\ cout' = [op |-> "load", calls |-> cout.calls + 1, keyBefore |-> KEY,
                       decryptionKey |-> passed, result |-> r]
    /\ UNCHANGED <<env, issued, last, cin>>

\* initSecrets() called by another module of the process
InitSecretsCall ==
    /\ cin.kind = "process"
    /\ cout.calls < MaxCalls
    /\ KEY' = initSecrets(KEY, Undefined, env).KEY
    /\ cout' = [op |-> "init", calls |-> cout.calls + 1]
    /\ UNCHANGED <<env, issued, last, cin>>

ProcessNext ==
    \/ \E passed \in {Undefined, <<>>, SecretBlank, SecretHex, SecretKey32} :
          LoadAnalyticsCall(passed)
    \/ InitSecretsCall

SpecProcess == ProcessInit /\ [][ProcessNext]_vars

\* the key that initSecrets derives from a secret in a fresh process
keyOfSecret(secret) == initSecrets(NULL, secret, Undefined).KEY

\* the artifact of the process holds an event marked redacted
HoldsMarked ==
    \E j \in 1..Len(EventsOf(decompressJson(cin.file).v[1])) :
        IsMarked(EventsOf(decompressJson(cin.file).v[1])[j])

\* the call was given a decryption key that is not blank and is not the
\* secret the artifact was written under
ForeignKeyPassed ==
    /\ cout.op = "load"
    /\ cout.decryptionKey # Undefined
    /\ trim(cout.decryptionKey) # <<>>
    /\ keyOfSecret(cout.decryptionKey) # keyOfSecret(SecretHex)

\* C25: in any sequence of calls within one process, loadAnalytics called
\* with a non-empty decryptionKey other than the secret that encrypted the
\* redacted fields fails with an authentication error, also when the process
\* key was established before the call.
C25_ForeignKeyRejected ==
    (ForeignKeyPassed /\ HoldsMarked) => cout.result.err = AuthenticationFailed

\* what the code does: the key in force is the one the process established
\* first, and the call returns the decrypted fields exactly when that key is
\* the writer's; a foreign key is rejected only while no key is established
Process_FirstKeyWins ==
    (ForeignKeyPassed /\ HoldsMarked) =>
        /\ KEY = (IF cout.keyBefore # NULL THEN cout.keyBefore
                  ELSE keyOfSecret(cout.decryptionKey))
        /\ cout.result.err = (IF cout.keyBefore = keyOfSecret(SecretHex) THEN NoError
                              ELSE AuthenticationFailed)

-----------------------------------------------------------------------------
(* The PII detector (src/lib/pii.ts).  A regular expression is a sequence  *)
(* of items: a word boundary, or a character class repeated between min    *)
(* and max times, greedily.  The matcher tries the alternatives in the     *)
(* order the backtracking engine of RegExp does.                           *)

WordBoundary == [k |-> "wb", class |-> "none", min |-> 0, max |-> 0]
Repeat(class, min, max) == [k |-> "rep", class |-> class, min |-> min, max |-> max]
One(class) == Repeat(class, 1, 1)
Optional(class) == Repeat(class, 0, 1)

\* stands for no upper limit of a repetition: longer than any text here
Unlimited == 1000

IsLetter(c) == (c >= 65 /\ c <= 90) \/ (c >= 97 /\ c <= 122)

\* the character classes of the patterns of lines 16-26
InClass(class, c) ==
    CASE class = "digit" -> IsDigit(c)                                     \* \d
      [] class = "sep" -> c = 45 \/ c = 46 \/ IsWhiteSpace(c)              \* [-.\s]
      [] class = "open" -> c = 40                                          \* \(
      [] class = "close" -> c = 41                                         \* \)
      [] class = "plus" -> c = 43                                          \* \+
      [] class = "minus" -> c = 45                                         \* -
      [] class = "at" -> c = 64                                            \* @
      [] class = "dot" -> c = 46                                           \* \.
      [] class = "letter" -> IsLetter(c)                                   \* [A-Za-z]
      [] class = "local" ->                                                \* [A-Za-z0-9._%+-]
             IsLetter(c) \/ IsDigit(c) \/ c \in {46, 95, 37, 43, 45}
      [] class = "domain" -> IsLetter(c) \/ IsDigit(c) \/ c \in {46, 45}   \* [A-Za-z0-9.-]
      [] OTHER -> FALSE

\* \w
IsWordChar(c) == IsLetter(c) \/ IsDigit(c) \/ c = 95

\* \b before the code unit at pos
IsBoundary(text, pos) ==
    (pos > 1 /\ IsWordChar(text[pos - 1])) # (pos <= Len(text) /\ IsWordChar(text[pos]))

\* how many code units from pos on are in the class, up to max
runLength(text, class, pos, max) ==
    CHOOSE k \in 0..Min(max, Len(text) + 1 - pos) :
        /\ \A j \in 0..(k - 1) : InClass(class, text[pos + j])
        /\ \/ k = Min(max, Len(text) + 1 - pos)
           \/ ~InClass(class, text[pos + k])

\* the position after the match of the items from step on that begins at
\* pos, 0 when there is none
RECURSIVE matchFrom(_, _, _, _), tryRepeat(_, _, _, _, _), orShorter(_, _, _, _, _, _)
matchFrom(pattern, text, step, pos) ==
    IF step > Len(pattern) THEN pos
    ELSE IF pattern[step].k = "wb"
         THEN IF IsBoundary(text, pos) THEN matchFrom(pattern, text, step + 1, pos) ELSE 0
    ELSE tryRepeat(pattern, text, step, pos,
                   runLength(text, pattern[step].class, pos, pattern[step].max))

\* k repetitions of the item, then fewer
tryRepeat(pattern, text, step, pos, k) ==
    IF k < pattern[step].min THEN 0
    ELSE orShorter(matchFrom(pattern, text, step + 1, pos + k), pattern, text, step, pos, k)

orShorter(r, pattern, text, step, pos, k) ==
    IF r # 0 THEN r ELSE tryRepeat(pattern, text, step, pos, k - 1)

\* RegExp.prototype.test on a fresh expression
test(pattern, text) == \E i \in 1..Len(text) : matchFrom(pattern, text, 1, i) # 0

\* where the leftmost match at or after from begins, 0 when there is none
nextStart(pattern, text, from) ==
    IF \E i \in from..Len(text) : matchFrom(pattern, text, 1, i) # 0
    THEN CHOOSE i \in from..Len(text) :
             /\ matchFrom(pattern, text, 1, i) # 0
             /\ \A j \in from..(i - 1) : matchFrom(pattern, text, 1, j) = 0
    ELSE 0

\* String.prototype.match with a global expression: the matches from left
\* to right, each search beginning where the match before ended
RECURSIVE matchAll(_, _, _), matchAllAt(_, _, _), matchAllTo(_, _, _, _)
matchAll(pattern, text, from) == matchAllAt(pattern, text, nextStart(pattern, text, from))

matchAllAt(pattern, text, i) ==
    IF i = 0 THEN <<>> ELSE matchAllTo(pattern, text, i, matchFrom(pattern, text, 1, i))

matchAllTo(pattern, text, i, e) == <<Slice(text, i, e - 1)>> \o matchAll(pattern, text, e)

match(text, pattern) == matchAll(pattern, text, 1)

\* line 16: /\b[A-Za-z0-9._%+-]+@[A-Za-z0-9.-]+\.[A-Za-z]{2,}\b/g
emailPattern ==
    <<WordBoundary, Repeat("local", 1, Unlimited), One("at"), Repeat("domain", 1, Unlimited),
      One("dot"), Repeat("letter", 2, Unlimited), WordBoundary>>

\* lines 20-27
phonePatterns ==
    <<\* /\b\(?\d{3}\)?[-.\s]?\d{3}[-.\s]?\d{4}\b/g
      <<WordBoundary, Optional("open"), Repeat("digit", 3, 3), Optional("close"),
        Optional("sep"), Repeat("digit", 3, 3), Optional("sep"), Repeat("digit", 4, 4),
        WordBoundary>>,
      \* /\+\d{1,3}[-.\s]?\(?\d{1,4}\)?[-.\s]?\d{1,4}[-.\s]?\d{1,4}[-.\s]?\d{1,9}/g
      <<One("plus"), Repeat("digit", 1, 3), Optional("sep"), Optional("open"),
        Repeat("digit", 1, 4), Optional("close"), Optional("sep"), Repeat("digit", 1, 4),
        Optional("sep"), Repeat("digit", 1, 4), Optional("sep"), Repeat("digit", 1, 9)>>,
      \* /\b\d{10,11}\b/g
      <<WordBoundary, Repeat("digit", 10, 11), WordBoundary>>>>

\* match.replace(/\D/g, '')
digitsOnly(m) == SelectSeq(m, IsDigit)

\* '1234567890' and '0123456789'
Sequential == <<49, 50, 51, 52, 53, 54, 55, 56, 57, 48>>
SequentialFromZero == <<48, 49, 50, 51, 52, 53, 54, 55, 56, 57>>

\* isLikelyPhoneNumber without the patterns of lines 70-71
isLikelyPhoneNumber_noSequential(m) ==
    /\ Len(digitsOnly(m)) >= 10
    /\ Len(digitsOnly(m)) <= 15
    /\ \E i \in 1..Len(digitsOnly(m)) : digitsOnly(m)[i] # 48
    /\ \E i \in 1..Len(digitsOnly(m)) : digitsOnly(m)[i] # 49

\* isLikelyPhoneNumber(match), lines 57-81
isLikelyPhoneNumber(m) ==
    /\ ~(Len(digitsOnly(m)) < 10 \/ Len(digitsOnly(m)) > 15)
    /\ ~(digitsOnly(m) # <<>> /\ \A i \in 1..Len(digitsOnly(m)) : digitsOnly(m)[i] = 48)
    /\ ~(digitsOnly(m) # <<>> /\ \A i \in 1..Len(digitsOnly(m)) : digitsOnly(m)[i] = 49)
    /\ digitsOnly(m) # Sequential
    /\ digitsOnly(m) # SequentialFromZero

\* lines 35-48 for one pattern
somePhone(text, pattern) ==
    /\ test(pattern, text)
    /\ \E m \in 1..Len(match(text, pattern)) : isLikelyPhoneNumber(match(text, pattern)[m])

\* hasPII(text), text being any value a caller hands over
hasPII(text) ==
    IF ~IsTruthy(text) \/ text.t # "str" THEN FALSE
    ELSE \/ test(emailPattern, text.v)
         \/ \E p \in 1..Len(phonePatterns) : somePhone(text.v, phonePatterns[p])

-----
(* SpecPII: hasPII applied once to a text put together from up to          *)
(* MaxFragments fragments, or to a value that is no string.                *)

MaxFragments == 3

\* '5551234567', '0000000000', '1111111111', '1234567890', '0123456789',
\* '555-123-4567', '(555) 123-4567', '+1-555-123-4567', '+44 20 1234 5678',
\* 'a@b.co', ' ', 'x', '12345', '+', '.c'
Fragments ==
    <<<<53, 53, 53, 49, 50, 51, 52, 53, 54, 55>>,
      <<48, 48, 48, 48, 48, 48, 48, 48, 48, 48>>,
      <<49, 49, 49, 49, 49, 49, 49, 49, 49, 49>>,
      Sequential,
      SequentialFromZero,
      <<53, 53, 53, 45, 49, 50, 51, 45, 52, 53, 54, 55>>,
      <<40, 53, 53, 53, 41, 32, 49, 50, 51, 45, 52, 53, 54, 55>>,
      <<43, 49, 45, 53, 53, 53, 45, 49, 50, 51, 45, 52, 53, 54, 55>>,
      <<43, 52, 52, 32, 50, 48, 32, 49, 50, 51, 52, 32, 53, 54, 55, 56>>,
      <<97, 64, 98, 46, 99, 111>>,
      <<32>>,
      <<120>>,
      <<49, 50, 51, 52, 53>>,
      <<43>>,
      <<46, 99>>>>

Texts == {join(Picked(Fragments, pick)) : pick \in Picks(Fragments, MaxFragments)}

\* null, 1234567 and true
NonStrings == <<JsNull, JsNum(1234567), JsBool(TRUE)>>

PIIInit ==
    /\ KEY = NULL
    /\ env = Undefined
    /\ issued = <<>>
    /\ last = NoCall
    /\ \/ \E text \in Texts : cin = [kind |-> "text", text |-> JsStr(text)]
       \/ \E n \in 1..Len(NonStrings) : cin = [kind |-> "text", text |-> NonStrings[n]]
    /\ cout = NoOutput

\* hasPII(text)
HasPII ==
    /\ cout.op = "none"
    /\ cin.kind = "text"
    /\ cout' = [op |-> "pii", result |-> hasPII(cin.text)]
    /\ UNCHANGED <<KEY, env, issued, last, cin>>

PIINext == HasPII

SpecPII == PIIInit /\ [][PIINext]_vars

-----------------------------------------------------------------------------
(* The claim about the PII detector. *)

\* the digits of a candidate
DigitsOf(candidate) == SelectSeq(candidate, LAMBDA c : c \in 48..57)

\* a candidate survives the filter: 10 to 15 digits, not all zeros, not all
\* ones, not 1234567890 and not 0123456789
Survives(candidate) ==
    /\ Len(DigitsOf(candidate)) \in 10..15
    /\ {DigitsOf(candidate)[i] : i \in 1..Len(DigitsOf(candidate))} \notin {{48}, {49}}
    /\ DigitsOf(candidate) \notin {Sequential, SequentialFromZero}

\* the candidates of the phone patterns in the text
Candidates(text) ==
    UNION {{match(text, phonePatterns[p])[m] : m \in 1..Len(match(text, phonePatterns[p]))} :
              p \in 1..Len(phonePatterns)}

\* C22: hasPII returns false for an empty text and for a value that is no
\* string, and otherwise returns true exactly when the text matches the email
\* pattern or some candidate of a phone pattern has, after stripping its
\* non-digits, 10 to 15 digits that are not all zeros, not all ones, not
\* 1234567890 and not 0123456789.
C22_HasPII ==
    cout.op = "pii" =>
        cout.result = IF cin.text.t # "str" \/ cin.text.v = <<>> THEN FALSE
                      ELSE \/ test(emailPattern, cin.text.v)
                           \/ \E candidate \in Candidates(cin.text.v) : Survives(candidate)

\* '1234567890 555-123-4567' is PII through its second candidate though the
\* first is filtered out, and '1234567890' alone is not
C22_Witness ==
    /\ cout.op = "pii"
    /\ cin.text = JsStr(Sequential \o <<32>> \o Fragments[6])
    /\ Candidates(cin.text.v) = {Sequential, Fragments[6]}
    /\ cout.result = TRUE

C22_WitnessFiltered ==
    /\ cout.op = "pii"
    /\ cin.text = JsStr(Sequential)
    /\ Candidates(cin.text.v) = {Sequential}
    /\ cout.result = FALSE

-----------------------------------------------------------------------------
(* The session-analytics optimizer (part_000 lines 13-48). *)

\* 'https://' and 'Translate'
Https == <<104, 116, 116, 112, 115, 58, 47, 47>>
Translate == <<84, 114, 97, 110, 115, 108, 97, 116, 101>>

\* String.prototype.includes(searchString)
includesSubstring(s, sub) ==
    \E i \in 1..(Len(s) + 1 - Len(sub)) : Slice(s, i, i + Len(sub) - 1) = sub

\* line 23
HoldsLink(event) ==
    /\ hasOwn(event.v, ContextKey)
    /\ getOwn(event.v, ContextKey).t = "str"
    /\ includesSubstring(getOwn(event.v, ContextKey).v, Https)

\* lines 24-25, r being what encrypt(event.c) gave
redacted(event, r) ==
    IF r.err # NoError THEN [err |-> r.err, event |-> event]
    ELSE [err |-> NoError,
          event |-> JsObj(assignProperty(assignProperty(event.v, ContextKey, JsStr(r.value)),
                                         RedactedKey, JsBool(TRUE)))]

\* lines 23-26
redactLink(K, envSecret, event, iv) ==
    IF HoldsLink(event)
    THEN redacted(event, encrypt(K, envSecret, getOwn(event.v, ContextKey).v, iv))
    ELSE [err |-> NoError, event |-> event]

\* lines 28-30: event.c.length.toString() of a value with no length throws
collapseTranslate(r) ==
    IF r.err # NoError THEN r
    ELSE IF /\ hasOwn(r.event.v, EventKey) /\ getOwn(r.event.v, EventKey) = JsStr(Translate)
            /\ hasOwn(r.event.v, ContextKey) /\ IsTruthy(getOwn(r.event.v, ContextKey))
         THEN IF getOwn(r.event.v, ContextKey).t \in {"str", "arr"}
              THEN [err |-> NoError,
                    event |-> JsObj(assignProperty(
                                  r.event.v, ContextKey,
                                  JsStr(numberToString(Len(getOwn(r.event.v, ContextKey).v)))))]
              ELSE [err |-> "TypeError", event |-> r.event]
    ELSE r

\* lines 22-31 for one event, iv being the nonce that encrypt draws
optimizeEvent(K, envSecret, event, iv) == collapseTranslate(redactLink(K, envSecret, event, iv))

\* lines 20-39 for the s-th session: the events of s.data optimized and the
\* structured entry
optimizedEvents(K, envSecret, events, s) ==
    [j \in 1..Len(events) |->
        optimizeEvent(K, envSecret, events[j], nthNonce(MaxEvents * (s - 1) + j))]

structured(session, done) ==
    [err |-> IF \E j \in 1..Len(done) : done[j].err # NoError
             THEN done[CHOOSE j \in 1..Len(done) :
                           /\ done[j].err # NoError
                           /\ \A i \in 1..(j - 1) : done[i].err = NoError].err
             ELSE NoError,
     value |-> JsObj(<<[k |-> <<116>>, v |-> JsNum(epochSeconds(session.timestamp))],
                       [k |-> <<117, 115, 101, 114>>, v |-> JsNum(session.user_id)],
                       [k |-> EventsKey, v |-> JsArr([j \in 1..Len(done) |-> done[j].event])],
                       [k |-> <<115, 116, 97, 116, 101>>, v |-> JSONparse(session.state)]>>)]

optimizeSession(K, envSecret, session, s) ==
    structured(session, optimizedEvents(K, envSecret, JSONparse(session.data).v, s))

\* lines 42-46: the artifact written, unless a session threw
writtenArtifact(K, all) ==
    IF \E s \in 1..Len(all) : all[s].err # NoError
    THEN [KEY |-> K, file |-> Undefined,
          err |-> all[CHOOSE s \in 1..Len(all) :
                          /\ all[s].err # NoError
                          /\ \A i \in 1..(s - 1) : all[i].err = NoError].err]
    ELSE [KEY |-> K, err |-> NoError,
          file |-> compressJson(JsArr([s \in 1..Len(all) |-> all[s].value]), TRUE)]

\* lines 17-46, init being the outcome of the initSecrets() of line 17
optimizeAnalyticsWith(init, envSecret, sessions) ==
    IF init.err # NoError THEN [KEY |-> init.KEY, err |-> init.err, file |-> Undefined]
    ELSE writtenArtifact(init.KEY,
                         [s \in 1..Len(sessions) |->
                             optimizeSession(init.KEY, envSecret, sessions[s], s)])

\* optimizeAnalytics(filePath) with KEY = K, sessions being the content of
\* the file: the key afterwards, the error thrown and the artifact written
optimizeAnalytics(K, envSecret, sessions) ==
    optimizeAnalyticsWith(initSecrets(K, Undefined, envSecret), envSecret, sessions)

-----
(* SpecOptimize: optimizeAnalytics applied once to up to MaxSessions raw   *)
(* sessions of up to MaxEvents events each, and loadAnalytics applied to   *)
(* the artifact it wrote, in a process of its own.                         *)

\* { e: 'Translate', c: 'sura' }, { e: 'OpenLink', c: 'https://a' },
\* { e: 'Translate', c: 'https://a' }, { e: 'Search', c: 'a@b.co' },
\* { e: 'OpenLink', c: 7 } and { e: 'Launch' }
RawEventPool ==
    <<JsObj(<<[k |-> EventKey, v |-> JsStr(Translate)],
             [k |-> ContextKey, v |-> JsStr(<<115, 117, 114, 97>>)]>>),
     JsObj(<<[k |-> EventKey, v |-> JsStr(<<79, 112, 101, 110, 76, 105, 110, 107>>)],
             [k |-> ContextKey, v |-> JsStr(Https \o <<97>>)]>>),
     JsObj(<<[k |-> EventKey, v |-> JsStr(Translate)],
             [k |-> ContextKey, v |-> JsStr(Https \o <<97>>)]>>),
     JsObj(<<[k |-> EventKey, v |-> JsStr(<<83, 101, 97, 114, 99, 104>>)],
             [k |-> ContextKey, v |-> JsStr(<<97, 64, 98, 46, 99, 111>>)]>>),
     JsObj(<<[k |-> EventKey, v |-> JsStr(<<79, 112, 101, 110, 76, 105, 110, 107>>)],
             [k |-> ContextKey, v |-> JsNum(7)]>>),
     JsObj(<<[k |-> EventKey, v |-> JsStr(<<76, 97, 117, 110, 99, 104>>)]>>)>>

\* { user_id: 42, timestamp: <day 1>, data: <the events>, state: '{"step":1}' }
RawSession(events) ==
    [user_id |-> 42, timestamp |-> [day |-> 1], data |-> stringify(JsArr(events)),
     state |-> stringify(JsObj(<<[k |-> <<115, 116, 101, 112>>, v |-> JsNum(1)]>>))]

RawSessions ==
    {[s \in 1..Len(picks) |-> RawSession(Picked(RawEventPool, picks[s]))] :
        picks \in SeqsUpTo(Picks(RawEventPool, MaxEvents), MaxSessions)}

OptimizeInit ==
    /\ KEY = NULL
    /\ env \in {Undefined, SecretHex}
    /\ issued = <<>>
    /\ last = NoCall
    /\ \E sessions \in RawSessions : cin = [kind |-> "sessions", sessions |-> sessions]
    /\ cout = NoOutput

\* optimizeAnalytics(filePath)
OptimizeAnalytics ==
    /\ cout.op = "none"
    /\ cin.kind = "sessions"
    /\ LET r == optimizeAnalytics(KEY, env, cin.sessions)
       IN  /\ KEY' = r.KEY
           /\ cout' = [op |-> "optimize", result |-> r]
    /\ UNCHANGED <<env, issued, last, cin>>

\* loadAnalytics('analytics.json.br', decryptionKey) in the process that
\* serves the artifact
LoadWritten(passed) ==
    /\ cout.op = "optimize"
    /\ cin.kind = "sessions"
    /\ cout.result.err = NoError
    /\ LET r == loadAnalytics(NULL, env, cout.result.file, passed)
       IN  /\ KEY' = r.KEY
           /\ cout' = [op |-> "load", written |-> cout.result, decryptionKey |-> passed,
                       result |-> r]
    /\ UNCHANGED <<env, issued, last, cin>>

OptimizeNext ==
    \/ OptimizeAnalytics
    \/ \E passed \in {Undefined, SecretHex} : LoadWritten(passed)

SpecOptimize == OptimizeInit /\ [][OptimizeNext]_vars

-----------------------------------------------------------------------------
(* The claims about the session-analytics optimizer. *)

\* the events of the s-th raw session, and those of the s-th session of the
\* artifact
OriginalEvents(s) == JSONparse(cin.sessions[s].data).v

WrittenEvents(file, s) == EventsOf(decompressJson(file).v[s])

\* the artifact of this run
WrittenFile == IF cout.op = "load" THEN cout.written.file ELSE cout.result.file

HasWritten == cin.kind = "sessions" /\ cout.op = "optimize" /\ cout.result.err = NoError

\* event.c, null when the event has none
FieldOf(event) == IF hasOwn(event.v, ContextKey) THEN getOwn(event.v, ContextKey) ELSE JsNull

\* some event of the artifact is a marked 'Translate'
HoldsMarkedTranslate(file) ==
    \E s \in 1..Len(cin.sessions) : \E j \in 1..Len(OriginalEvents(s)) :
        /\ IsMarked(WrittenEvents(file, s)[j])
        /\ getOwn(WrittenEvents(file, s)[j].v, EventKey) = JsStr(Translate)

\* C26: in the artifact that optimizeAnalytics writes, every event marked
\* _redacted holds in c a token that decrypts to the c of the raw event,
\* whatever the type and the content of the event, and loadAnalytics with the
\* writer's secret does not fail on the artifact.
C26_MarkedDecrypts ==
    /\ HasWritten =>
          \A s \in 1..Len(cin.sessions) : \A j \in 1..Len(OriginalEvents(s)) :
              IsMarked(WrittenEvents(WrittenFile, s)[j]) =>
                  /\ decrypt(KEY, env, FieldOf(WrittenEvents(WrittenFile, s)[j]).v).err = NoError
                  /\ JsStr(decrypt(KEY, env, FieldOf(WrittenEvents(WrittenFile, s)[j]).v).value)
                         = FieldOf(OriginalEvents(s)[j])
    /\ (cout.op = "load" /\ cout.decryptionKey = SecretHex) => cout.result.err = NoError

\* what the code gives: a marked event that is no 'Translate' holds the token
\* of its raw c; a marked 'Translate' holds the decimal length of the token,
\* and loadAnalytics with the writer's secret fails on exactly the artifacts
\* that hold one
Optimize_MarkedUnlessTranslate ==
    /\ HasWritten =>
          \A s \in 1..Len(cin.sessions) : \A j \in 1..Len(OriginalEvents(s)) :
              IsMarked(WrittenEvents(WrittenFile, s)[j]) =>
                  IF getOwn(OriginalEvents(s)[j].v, EventKey) = JsStr(Translate)
                  THEN FieldOf(WrittenEvents(WrittenFile, s)[j])
                           = JsStr(numberToString(Len(
                                 encrypt(KEY, env, FieldOf(OriginalEvents(s)[j]).v,
                                         nthNonce(MaxEvents * (s - 1) + j)).value)))
                  ELSE JsStr(decrypt(KEY, env, FieldOf(WrittenEvents(WrittenFile, s)[j]).v).value)
                           = FieldOf(OriginalEvents(s)[j])
    /\ (cout.op = "load" /\ cout.decryptionKey = SecretHex) =>
          (cout.result.err # NoError) = HoldsMarkedTranslate(WrittenFile)

\* C21: on write, the field c of an event is replaced by encrypt(c) and the
\* event marked redacted if and only if hasPII(c) is true; a field for which
\* hasPII is false is written as it is (the keys of the event sorted) and the
\* event left unmarked.
C21_RedactedIffPII ==
    HasWritten =>
        \A s \in 1..Len(cin.sessions) : \A j \in 1..Len(OriginalEvents(s)) :
            IF hasPII(FieldOf(OriginalEvents(s)[j]))
            THEN /\ IsMarked(WrittenEvents(WrittenFile, s)[j])
                 /\ JsStr(decrypt(KEY, env, FieldOf(WrittenEvents(WrittenFile, s)[j]).v).value)
                        = FieldOf(OriginalEvents(s)[j])
            ELSE WrittenEvents(WrittenFile, s)[j] = canonicalize(OriginalEvents(s)[j])

\* what the session optimizer does: an event is marked exactly when its c is
\* a string that contains 'https://', and an event that is neither marked nor
\* a 'Translate' is written as it is, its keys sorted
Optimize_RedactedIffLink ==
    HasWritten =>
        \A s \in 1..Len(cin.sessions) : \A j \in 1..Len(OriginalEvents(s)) :
            /\ IsMarked(WrittenEvents(WrittenFile, s)[j]) = HoldsLink(OriginalEvents(s)[j])
            /\ (/\ ~HoldsLink(OriginalEvents(s)[j])
                /\ getOwn(OriginalEvents(s)[j].v, EventKey) # JsStr(Translate))
                   => WrittenEvents(WrittenFile, s)[j] = canonicalize(OriginalEvents(s)[j])

-----------------------------------------------------------------------------
(* The BB10 analytics optimizer (src/lib/compression.ts lines 83-324).  A  *)
(* raw record is a row of the input file as csv-parse returns it with      *)
(* cast: true: user_id and count are numbers, event and app are strings,   *)
(* context is a number or a string.  A processed event holds context and   *)
(* contextId as JavaScript values, Missing when the property is not set.   *)

Missing == [t |-> "undefined"]

\* 'AppLaunch', 'AppClose', 'SessionTotal', 'undefined', '<html', '<HTML'
AppLaunch == <<65, 112, 112, 76, 97, 117, 110, 99, 104>>
AppClose == <<65, 112, 112, 67, 108, 111, 115, 101>>
SessionTotal == <<83, 101, 115, 115, 105, 111, 110, 84, 111, 116, 97, 108>>
UndefinedText == <<117, 110, 100, 101, 102, 105, 110, 101, 100>>
HtmlLower == <<60, 104, 116, 109, 108>>
HtmlUpper == <<60, 72, 84, 77, 76>>

\* the id that `if (!map[key]) map[key] = ++next` gave to the key, keys being
\* the keys in the order the records bring them
idOfKey(keys, key) ==
    CHOOSE n \in 1..Len(firstPositions(keys)) : keys[firstPositions(keys)[n]] = key

\* eventToId.<name>: the id, or 0 for undefined
lookupId(keys, key) == IF \E i \in 1..Len(keys) : keys[i] = key THEN idOfKey(keys, key) ELSE 0

\* lines 114-115
IsContextText(record) ==
    /\ record.context.t = "str"
    /\ ~includesSubstring(record.context.v, HtmlLower)
    /\ ~includesSubstring(record.context.v, HtmlUpper)

eventNames(records) == [i \in 1..Len(records) |-> records[i].event]

\* the contexts that get an id, in the order of the records
contextTexts(records) ==
    [i \in 1..Len(SelectSeq(records, IsContextText)) |->
        SelectSeq(records, IsContextText)[i].context.v]

\* lines 112-124: the processed event of a record
processedEvent(records, record) ==
    [count |-> record.count,
     id |-> idOfKey(eventNames(records), record.event),
     contextId |-> IF IsContextText(record)
                   THEN JsNum(idOfKey(contextTexts(records), record.context.v))
                   ELSE Missing,
     context |-> IF record.context.t = "str" THEN Missing ELSE record.context]

\* appToUserEvents[app][user]
userEvents(records, app, user) ==
    [i \in 1..Len(SelectSeq(records, LAMBDA r : r.app = app /\ r.user_id = user)) |->
        processedEvent(records, SelectSeq(records, LAMBDA r : r.app = app /\ r.user_id = user)[i])]

\* Object.keys(appToUserEvents), in insertion order
appsOf(records) ==
    [n \in 1..Len(firstPositions([i \in 1..Len(records) |-> records[i].app])) |->
        records[firstPositions([i \in 1..Len(records) |-> records[i].app])[n]].app]

\* the users of an app
usersOf(records, app) == {records[i].user_id : i \in {j \in 1..Len(records) : records[j].app = app}}

\* lines 138-140, for a whole number
truncateToThreeDecimals(num) == (num * 1000) \div 1000

\* pairStep without the closing of the window at line 179
pairStep_keepOpen(run, event, appLaunchId, appCloseId) ==
    IF event.id = appLaunchId
    THEN [run EXCEPT !.currentLaunch = event.context]
    ELSE IF event.id = appCloseId
         THEN IF run.currentLaunch # JsNull
              THEN [currentLaunch |-> run.currentLaunch,
                    appLaunches |-> Append(run.appLaunches, run.currentLaunch),
                    appExits |-> Append(run.appExits, event.context)]
              ELSE run
    ELSE run

\* lines 164-181 for one event: run holds currentLaunch (JsNull when no
\* launch window is open), appLaunches and appExits
pairStep(run, event, appLaunchId, appCloseId) ==
    IF event.id = appLaunchId
    THEN [run EXCEPT !.currentLaunch = event.context]
    ELSE IF event.id = appCloseId
         THEN IF run.currentLaunch # JsNull
              THEN [currentLaunch |-> JsNull,
                    appLaunches |-> Append(run.appLaunches, run.currentLaunch),
                    appExits |-> Append(run.appExits, event.context)]
              ELSE run
    ELSE run

\* the launches and exits of lines 156-196 over one user's events
RECURSIVE pairLaunches(_, _, _, _)
pairLaunches(run, events, appLaunchId, appCloseId) ==
    IF events = <<>> THEN run
    ELSE pairLaunches(pairStep(run, Head(events), appLaunchId, appCloseId), Tail(events),
                      appLaunchId, appCloseId)

NoLaunches == [currentLaunch |-> JsNull, appLaunches |-> <<>>, appExits |-> <<>>]

\* line 187: `${event.id}/${event.contextId}`
hashKey(event) ==
    numberToString(event.id) \o <<47>>
        \o (IF event.contextId = Missing THEN UndefinedText ELSE numberToString(event.contextId.v))

\* lines 183-185
truncated(event) ==
    IF event.context # Missing /\ event.context.v # 0
    THEN [event EXCEPT !.context = JsNum(truncateToThreeDecimals(event.context.v))]
    ELSE event

\* lines 182-195 over one user's events: the events that are neither launch
\* nor close, merged by hashKey in the order the keys first appear
mergedEvents(events, appLaunchId, appCloseId) ==
    LET misc == SelectSeq(events, LAMBDA e : e.id # appLaunchId /\ e.id # appCloseId)
        keys == [i \in 1..Len(misc) |-> hashKey(misc[i])]
        first == firstPositions(keys)
    IN  [k \in 1..Len(first) |->
            [truncated(misc[first[k]]) EXCEPT
                !.count = sumCounts(SelectSeq(misc, LAMBDA e : hashKey(e) = keys[first[k]]))]]

\* lines 199-210: the session rows of the pairs that last less than a day
sessionRows(pairs, appLaunchId) ==
    LET lasts(i) == (pairs.appExits[i].v - pairs.appLaunches[i].v) \div 1000
        kept == SelectSeq([i \in 1..Len(pairs.appLaunches) |-> i],
                          LAMBDA i : /\ pairs.appLaunches[i] # Missing
                                     /\ pairs.appExits[i] # Missing
                                     /\ lasts(i) < 3600 * 24)
    IN  [k \in 1..Len(kept) |->
            [count |-> 1, id |-> appLaunchId, contextId |-> Missing,
             context |-> JsNum(lasts(kept[k]))]]

\* lines 155-212 for one user: userToEvents[user] afterwards, with the
\* launches and the exits recorded on the way
optimizedUser(events, appLaunchId, appCloseId) ==
    [pairs |-> pairLaunches(NoLaunches, events, appLaunchId, appCloseId),
     events |-> mergedEvents(events, appLaunchId, appCloseId)
                    \o sessionRows(pairLaunches(NoLaunches, events, appLaunchId, appCloseId),
                                   appLaunchId)]

\* userToEvents[user].sort((a, b) => a.id - b.id), a stable sort
sortById(events) ==
    LET before(j, i) == events[j].id < events[i].id \/ (events[j].id = events[i].id /\ j < i)
        rank == [i \in 1..Len(events) |-> 1 + Cardinality({j \in 1..Len(events) : before(j, i)})]
    IN  [r \in 1..Len(events) |-> events[CHOOSE i \in 1..Len(events) : rank[i] = r]]

\* lines 218-220: the users in ascending order
sortedUsers(users) ==
    [r \in 1..Cardinality(users) |->
        CHOOSE u \in users : Cardinality({v \in users : v < u}) = r - 1]

\* value || '' as join(',') writes it
orEmpty(value) == IF value = Missing \/ value.v = 0 THEN <<>> ELSE numberToString(value.v)

\* 'user,id,context,contextId,count'
AnalyticsCsvHeader ==
    <<117, 115, 101, 114, 44, 105, 100, 44, 99, 111, 110, 116, 101, 120, 116, 44,
      99, 111, 110, 116, 101, 120, 116, 73, 100, 44, 99, 111, 117, 110, 116>>

\* lines 227-235: the row of the i-th event of a user
csvRow(user, events, i, omitSubsequentRequireds) ==
    joinWith(<<IF ~omitSubsequentRequireds \/ i = 1 THEN numberToString(user) ELSE <<>>,
               IF ~omitSubsequentRequireds \/ i = 1 \/ events[i].id # events[i - 1].id
               THEN numberToString(events[i].id) ELSE <<>>,
               orEmpty(events[i].context),
               orEmpty(events[i].contextId),
               numberToString(events[i].count)>>, <<44>>)

\* lines 222-237 for one user
userRows(user, sorted, omitSubsequentRequireds) ==
    [i \in 1..Len(sorted) |-> csvRow(user, sorted, i, omitSubsequentRequireds)]

\* the events of a user as the csv lists them
listedEvents(records, app, user) ==
    sortById(optimizedUser(userEvents(records, app, user),
                           lookupId(eventNames(records), AppLaunch),
                           lookupId(eventNames(records), AppClose)).events)

\* lines 217-239: the text of <app>.csv
csvText(records, app, omitSubsequentRequireds) ==
    joinWith(<<AnalyticsCsvHeader>>
                 \o join([u \in 1..Cardinality(usersOf(records, app)) |->
                             userRows(sortedUsers(usersOf(records, app))[u],
                                      listedEvents(records, app,
                                                   sortedUsers(usersOf(records, app))[u]),
                                      omitSubsequentRequireds)]),
             <<10>>)

\* the rows of lines 222-226 for <app>.csv before they are written: user and
\* event
listedRows(records, app) ==
    join([u \in 1..Cardinality(usersOf(records, app)) |->
             [i \in 1..Len(listedEvents(records, app, sortedUsers(usersOf(records, app))[u])) |->
                 [user |-> sortedUsers(usersOf(records, app))[u],
                  event |-> listedEvents(records, app,
                                         sortedUsers(usersOf(records, app))[u])[i]]]])

\* delete obj[key]
deleteOwn(props, k) == SelectSeq(props, LAMBDA p : p.k # k)

\* String(id) of an id that may be undefined (0 here)
idKey(id) == IF id = 0 THEN UndefinedText ELSE numberToString(id)

\* lines 130, 249-250: idToEvent as events.json holds it
idToEventOf(records) ==
    JsObj(deleteOwn(
        assignProperty(
            fromEntries(<<>>, [n \in 1..Len(firstPositions(eventNames(records))) |->
                                  [k |-> numberToString(n),
                                   v |-> JsStr(eventNames(records)[
                                             firstPositions(eventNames(records))[n]])]]),
            idKey(lookupId(eventNames(records), AppLaunch)), JsStr(SessionTotal)),
        idKey(lookupId(eventNames(records), AppClose))))

\* parseFloat(match), Math.floor(num * 1000) / 1000 and toString() for a
\* match of /-?\d+\.\d+/ whose product with 1000 is exact in floating point:
\* the digits before the point, the first three after it, and whether any
\* digit after those is not 0
RECURSIVE digitsValue(_)
digitsValue(ds) ==
    IF ds = <<>> THEN 0 ELSE 10 * digitsValue(Slice(ds, 1, Len(ds) - 1)) + (ds[Len(ds)] - 48)

pointOf(m) == CHOOSE i \in 1..Len(m) : m[i] = 46

thousandths(m) ==
    LET negative == m[1] = 45
        whole == digitsValue(Slice(m, IF negative THEN 2 ELSE 1, pointOf(m) - 1))
        fraction == Slice(m, pointOf(m) + 1, Len(m))
        three == digitsValue([i \in 1..3 |-> IF i <= Len(fraction) THEN fraction[i] ELSE 48])
        more == \E i \in 4..Len(fraction) : fraction[i] # 48
    IN  IF negative THEN -(whole * 1000 + three) - (IF more THEN 1 ELSE 0)
        ELSE whole * 1000 + three

\* (t / 1000).toString()
thousandthsToString(t) ==
    LET a == IF t < 0 THEN -t ELSE t
        f == <<48 + ((a % 1000) \div 100), 48 + ((a % 100) \div 10), 48 + (a % 10)>>
        kept == CHOOSE n \in 0..3 : /\ \A i \in (n + 1)..3 : f[i] = 48
                                    /\ (n = 0 \/ f[n] # 48)
    IN  (IF t < 0 THEN <<45>> ELSE <<>>) \o decimalDigits(a \div 1000)
            \o (IF kept = 0 THEN <<>> ELSE <<46>> \o Slice(f, 1, kept))

\* /-?\d+\.\d+/g
coordinatePattern ==
    <<Optional("minus"), Repeat("digit", 1, Unlimited), One("dot"), Repeat("digit", 1, Unlimited)>>

\* lines 142-147: coordStr.replace(/-?\d+\.\d+/g, ...)
RECURSIVE truncateFrom(_, _), truncateAt(_, _, _), truncateTo(_, _, _, _)
truncateFrom(coordStr, from) == truncateAt(coordStr, from, nextStart(coordinatePattern, coordStr, from))

truncateAt(coordStr, from, i) ==
    IF i = 0 THEN Slice(coordStr, from, Len(coordStr))
    ELSE truncateTo(coordStr, from, i, matchFrom(coordinatePattern, coordStr, 1, i))

truncateTo(coordStr, from, i, e) ==
    Slice(coordStr, from, i - 1) \o thousandthsToString(thousandths(Slice(coordStr, i, e - 1)))
        \o truncateFrom(coordStr, e)

truncateCoordinateString(coordStr) == truncateFrom(coordStr, 1)

\* '__REDACTED__'
RedactedPrefix == <<95, 95, 82, 69, 68, 65, 67, 84, 69, 68, 95, 95>>

\* lines 255-261 for the context with the id n
storedContext(K, envSecret, value, n) ==
    IF hasPII(JsStr(value))
    THEN RedactedPrefix \o encrypt(K, envSecret, value, nthNonce(n)).value
    ELSE value

\* lines 131, 254-262: idToContext as contexts.json.br holds it
idToContextOf(K, envSecret, records) ==
    JsObj(fromEntries(<<>>, [n \in 1..Len(firstPositions(contextTexts(records))) |->
        [k |-> numberToString(n),
         v |-> JsStr(storedContext(
                   K, envSecret,
                   truncateCoordinateString(
                       contextTexts(records)[firstPositions(contextTexts(records))[n]]),
                   n))]]))

\* lines 149-275 with shouldCompress, init being the outcome of the
\* initSecrets() of line 252: the csv files are written before it, the other
\* two after it
optimizeBB10With(init, envSecret, records, omitSubsequentRequireds) ==
    [KEY |-> init.KEY,
     err |-> init.err,
     apps |-> appsOf(records),
     csv |-> [a \in 1..Len(appsOf(records)) |->
                 compressString(csvText(records, appsOf(records)[a], omitSubsequentRequireds))],
     events |-> IF init.err # NoError THEN Undefined ELSE stringify(idToEventOf(records)),
     contexts |-> IF init.err # NoError THEN Undefined
                  ELSE compressJson(idToContextOf(init.KEY, envSecret, records), TRUE)]

\* optimizeAnalytics(filePath, omitSubsequentRequireds) of the BB10 pipeline
\* with KEY = K, records being the rows of the file
optimizeBB10(K, envSecret, records, omitSubsequentRequireds) ==
    optimizeBB10With(initSecrets(K, Undefined, envSecret), envSecret, records,
                     omitSubsequentRequireds)

\* String.prototype.split(separator)
split(s, c) ==
    LET p == SelectSeq([i \in 1..Len(s) |-> i], LAMBDA i : s[i] = c)
    IN  [k \in 1..(Len(p) + 1) |->
            Slice(s, IF k = 1 THEN 1 ELSE p[k - 1] + 1, IF k = Len(p) + 1 THEN Len(s) ELSE p[k] - 1)]

\* the cast of csv-parse for the fields written here (whole numbers and
\* empty fields): a field of digits, with a sign or not, is a number
castField(field) ==
    IF field # <<>> /\ \A i \in 1..Len(field) : IsDigit(field[i])
    THEN JsNum(digitsValue(field))
    ELSE IF /\ Len(field) > 1 /\ field[1] = 45
            /\ \A i \in 2..Len(field) : IsDigit(field[i])
         THEN JsNum(-digitsValue(Tail(field)))
    ELSE JsStr(trim(field))

\* parse(text, { columns: true, cast: true, trim: true, skip_empty_lines: true })
\* of a text without quotes: each row as an object of its columns
parseColumns(text) ==
    LET lines == SelectSeq(split(text, 10), LAMBDA line : line # <<>>)
        columns == split(lines[1], 44)
    IN  [r \in 1..(Len(lines) - 1) |->
            [c \in 1..Len(columns) |->
                [k |-> trim(columns[c]), v |-> castField(trim(split(lines[r + 1], 44)[c]))]]]

\* lines 300-310 for one row: event is the parsed row, seen holds lastUserId
\* and lastEventId
decodedRow(event, seen, idToEvent, idToContext) ==
    [id |-> IF hasOwn(idToEvent.v,
                      numberToString(IF IsTruthy(getOwn(event, <<105, 100>>))
                                     THEN getOwn(event, <<105, 100>>).v ELSE seen.lastEventId))
            THEN getOwn(idToEvent.v,
                        numberToString(IF IsTruthy(getOwn(event, <<105, 100>>))
                                       THEN getOwn(event, <<105, 100>>).v ELSE seen.lastEventId))
            ELSE Missing,
     count |-> getOwn(event, <<99, 111, 117, 110, 116>>),
     user |-> IF IsTruthy(getOwn(event, <<117, 115, 101, 114>>))
              THEN getOwn(event, <<117, 115, 101, 114>>).v ELSE seen.lastUserId,
     context |->
         IF /\ IsTruthy(getOwn(event, <<99, 111, 110, 116, 101, 120, 116, 73, 100>>))
            /\ hasOwn(idToContext.v,
                      numberToString(getOwn(event, <<99, 111, 110, 116, 101, 120, 116, 73, 100>>).v))
            /\ IsTruthy(getOwn(idToContext.v,
                   numberToString(getOwn(event, <<99, 111, 110, 116, 101, 120, 116, 73, 100>>).v)))
         THEN getOwn(idToContext.v,
                     numberToString(getOwn(event, <<99, 111, 110, 116, 101, 120, 116, 73, 100>>).v))
         ELSE IF IsTruthy(getOwn(event, <<99, 111, 110, 116, 101, 120, 116>>))
              THEN getOwn(event, <<99, 111, 110, 116, 101, 120, 116>>)
         ELSE Missing]

\* remembered without lines 312-314
remembered_noEventId(event, seen) ==
    [lastEventId |-> seen.lastEventId,
     lastUserId |-> IF IsTruthy(getOwn(event, <<117, 115, 101, 114>>))
                    THEN getOwn(event, <<117, 115, 101, 114>>).v ELSE seen.lastUserId]

\* lines 312-318
remembered(event, seen) ==
    [lastEventId |-> IF IsTruthy(getOwn(event, <<105, 100>>))
                     THEN getOwn(event, <<105, 100>>).v ELSE seen.lastEventId,
     lastUserId |-> IF IsTruthy(getOwn(event, <<117, 115, 101, 114>>))
                    THEN getOwn(event, <<117, 115, 101, 114>>).v ELSE seen.lastUserId]

\* lines 299-321
RECURSIVE decodeRows(_, _, _, _)
decodeRows(events, seen, idToEvent, idToContext) ==
    IF events = <<>> THEN <<>>
    ELSE <<decodedRow(Head(events), seen, idToEvent, idToContext)>>
             \o decodeRows(Tail(events), remembered(Head(events), seen), idToEvent, idToContext)

\* loadOptimizedAnalytics(appName) over the three files of the app
loadOptimizedAnalytics(contextsBuffer, eventsData, csvData) ==
    decodeRows(parseColumns(decompressString(csvData)),
               [lastUserId |-> 0, lastEventId |-> 0],
               JSONparse(eventsData), decompressJson(contextsBuffer))

-----
(* SpecBB10: the BB10 optimizeAnalytics applied once to a file of up to    *)
(* MaxRawEvents records, and loadOptimizedAnalytics applied to the files   *)
(* it wrote.                                                               *)

MaxRawEvents == 3

\* 'quran10', 'Search', 'Page'
Quran10 == <<113, 117, 114, 97, 110, 49, 48>>
SearchEvent == <<83, 101, 97, 114, 99, 104>>
PageEvent == <<80, 97, 103, 101>>

RawEvent(user, event, context, count) ==
    [user_id |-> user, event |-> event, context |-> context, count |-> count, app |-> Quran10]

\* user 10: AppLaunch at 1000 and at 5000, AppClose at 9000 and at 90000000,
\* Search 'a@b.co' twice, Search 5 and Search 7 three times;
\* user 2: Page '<html>1.2345' and Search '1.2345,-0.5'
RawRecordPool ==
    <<RawEvent(10, AppLaunch, JsNum(1000), 1),
      RawEvent(10, AppLaunch, JsNum(5000), 1),
      RawEvent(10, AppClose, JsNum(9000), 1),
      RawEvent(10, AppClose, JsNum(90000000), 1),
      RawEvent(10, SearchEvent, JsStr(<<97, 64, 98, 46, 99, 111>>), 2),
      RawEvent(10, SearchEvent, JsNum(5), 1),
      RawEvent(10, SearchEvent, JsNum(7), 3),
      RawEvent(2, PageEvent, JsStr(<<60, 104, 116, 109, 108, 62, 49, 46, 50, 51, 52, 53>>), 1),
      RawEvent(2, SearchEvent, JsStr(<<49, 46, 50, 51, 52, 53, 44, 45, 48, 46, 53>>), 1)>>

BB10Init ==
    /\ KEY = NULL
    /\ env \in {Undefined, SecretHex}
    /\ issued = <<>>
    /\ last = NoCall
    /\ \E pick \in Picks(RawRecordPool, MaxRawEvents) :
          cin = [kind |-> "bb10", records |-> Picked(RawRecordPool, pick)]
    /\ cout = NoOutput

\* what lines 153-214 leave for every user of every app
optimizedUsers(records) ==
    [a \in 1..Len(appsOf(records)) |->
        [user \in usersOf(records, appsOf(records)[a]) |->
            optimizedUser(userEvents(records, appsOf(records)[a], user),
                          lookupId(eventNames(records), AppLaunch),
                          lookupId(eventNames(records), AppClose))]]

\* optimizeAnalytics(filePath, omitSubsequentRequireds)
OptimizeBB10(omitSubsequentRequireds) ==
    /\ cout.op = "none"
    /\ cin.kind = "bb10"
    /\ LET r == optimizeBB10(KEY, env, cin.records, omitSubsequentRequireds)
       IN  /\ KEY' = r.KEY
           /\ cout' = [op |-> "optimize", omit |-> omitSubsequentRequireds, result |-> r,
                       users |-> optimizedUsers(cin.records),
                       rows |-> [a \in 1..Len(appsOf(cin.records)) |->
                                    listedRows(cin.records, appsOf(cin.records)[a])]]
    /\ UNCHANGED <<env, issued, last, cin>>

\* loadOptimizedAnalytics(appName) for the a-th app written
LoadOptimized(a) ==
    /\ cout.op = "optimize"
    /\ cin.kind = "bb10"
    /\ cout.result.err = NoError
    /\ a \in 1..Len(cout.result.apps)
    /\ cout' = [op |-> "load", omit |-> cout.omit, app |-> a, written |-> cout.result,
                rows |-> cout.rows[a],
                result |-> loadOptimizedAnalytics(cout.result.contexts, cout.result.events,
                                                  cout.result.csv[a])]
    /\ UNCHANGED <<KEY, env, issued, last, cin>>

BB10Next ==
    \/ \E omitSubsequentRequireds \in BOOLEAN : OptimizeBB10(omitSubsequentRequireds)
    \/ \E a \in 1..1 : LoadOptimized(a)

SpecBB10 == BB10Init /\ [][BB10Next]_vars

-----------------------------------------------------------------------------
(* The claims about the BB10 optimizer. *)

LaunchId == lookupId(eventNames(cin.records), AppLaunch)
CloseId == lookupId(eventNames(cin.records), AppClose)

\* the events of a user of the a-th app before lines 153-214
EventsBefore(a, user) == userEvents(cin.records, appsOf(cin.records)[a], user)

\* the closes that end a launch window: a launch comes before with neither
\* launch nor close in between
PairedCloses(events) ==
    {p \in 1..Len(events) :
        /\ events[p].id = CloseId
        /\ \E q \in 1..(p - 1) :
              /\ events[q].id = LaunchId
              /\ \A r \in (q + 1)..(p - 1) : events[r].id \notin {LaunchId, CloseId}}

\* the launch that the close at p ends
LaunchOf(events, p) ==
    CHOOSE q \in 1..(p - 1) :
        /\ events[q].id = LaunchId
        /\ \A r \in (q + 1)..(p - 1) : events[r].id \notin {LaunchId, CloseId}

NthOf(positions, k) == CHOOSE p \in positions : Cardinality({q \in positions : q < p}) = k - 1

\* C23: for every user the launches and the exits the optimizer records are
\* paired: the lists have the same length, one entry for each close that
\* comes while a launch window is open, in order; the launch of a pair is
\* the most recent launch before the close (a later launch replaces an open
\* one), a close with no open window is discarded, and a launch with no close
\* after it gives no pair.
C23_Paired ==
    cout.op = "optimize" =>
        \A a \in 1..Len(cout.users) : \A user \in DOMAIN cout.users[a] :
            /\ Len(cout.users[a][user].pairs.appLaunches) = Len(cout.users[a][user].pairs.appExits)
            /\ Len(cout.users[a][user].pairs.appExits)
                   = Cardinality(PairedCloses(EventsBefore(a, user)))
            /\ \A k \in 1..Len(cout.users[a][user].pairs.appExits) :
                  /\ cout.users[a][user].pairs.appExits[k]
                         = EventsBefore(a, user)[NthOf(PairedCloses(EventsBefore(a, user)), k)].context
                  /\ cout.users[a][user].pairs.appLaunches[k]
                         = EventsBefore(a, user)[
                               LaunchOf(EventsBefore(a, user),
                                        NthOf(PairedCloses(EventsBefore(a, user)), k))].context

\* launch at 1000, launch at 5000, close at 9000: one pair, of the second
\* launch and the close
C23_Witness ==
    /\ cout.op = "optimize"
    /\ Len(cin.records) = 3
    /\ \A i \in 1..3 : cin.records[i] = RawRecordPool[i]
    /\ cout.users[1][10].pairs.appLaunches = <<JsNum(5000)>>
    /\ cout.users[1][10].pairs.appExits = <<JsNum(9000)>>

\* close at 9000, launch at 1000, close at 90000000: the first close is
\* discarded
C23_WitnessDiscarded ==
    /\ cout.op = "optimize"
    /\ cin.records = <<RawRecordPool[3], RawRecordPool[1], RawRecordPool[4]>>
    /\ cout.users[1][10].pairs.appLaunches = <<JsNum(1000)>>
    /\ cout.users[1][10].pairs.appExits = <<JsNum(90000000)>>

\* the events of a user that are neither launch nor close
MiscBefore(a, user) ==
    SelectSeq(EventsBefore(a, user), LAMBDA e : e.id \notin {LaunchId, CloseId})

\* the rows of a user that are no session rows
MiscAfter(a, user) ==
    SelectSeq(cout.users[a][user].events, LAMBDA e : e.id # LaunchId)

\* the event id and the context of an event, as a text
ContextText(event) ==
    numberToString(event.id) \o <<47>>
        \o (IF event.contextId = Missing THEN <<>> ELSE numberToString(event.contextId.v))
        \o <<47>>
        \o (IF event.context = Missing THEN <<>> ELSE numberToString(event.context.v))

CountOf(events) == sumCounts(events)

\* the sum of the counts per user and event id is the same before and after
SameCountsPerId(a, user) ==
    \A id \in {MiscBefore(a, user)[i].id : i \in 1..Len(MiscBefore(a, user))} :
        CountOf(SelectSeq(MiscBefore(a, user), LAMBDA e : e.id = id))
            = CountOf(SelectSeq(MiscAfter(a, user), LAMBDA e : e.id = id))

\* C28: within one user's events, two events other than launch and close are
\* merged into one row only when they have the same event id and the same
\* context (the same context id, or the same numeric context): there is one
\* row for each event id and context, with the sum of the counts of its
\* events, and the sum of the counts per event id is unchanged.
C28_MergesSameContext ==
    cout.op = "optimize" =>
        \A a \in 1..Len(cout.users) : \A user \in DOMAIN cout.users[a] :
            /\ Len(MiscAfter(a, user))
                   = Cardinality({ContextText(MiscBefore(a, user)[i]) :
                                     i \in 1..Len(MiscBefore(a, user))})
            /\ \A k \in 1..Len(MiscAfter(a, user)) :
                  MiscAfter(a, user)[k].count
                      = CountOf(SelectSeq(MiscBefore(a, user),
                                          LAMBDA e : ContextText(e) = ContextText(MiscAfter(a, user)[k])))
            /\ SameCountsPerId(a, user)

\* what the code does: the rows are merged by event id and context id alone,
\* so all the events of one event id that have a numeric context, or a
\* context with '<html', become one row with the context of the first
BB10_MergesByContextId ==
    cout.op = "optimize" =>
        \A a \in 1..Len(cout.users) : \A user \in DOMAIN cout.users[a] :
            /\ Len(MiscAfter(a, user))
                   = Cardinality({hashKey(MiscBefore(a, user)[i]) :
                                     i \in 1..Len(MiscBefore(a, user))})
            /\ \A k \in 1..Len(MiscAfter(a, user)) :
                  MiscAfter(a, user)[k].count
                      = CountOf(SelectSeq(MiscBefore(a, user),
                                          LAMBDA e : hashKey(e) = hashKey(MiscAfter(a, user)[k])))
            /\ SameCountsPerId(a, user)

\* the name events.json gives to an event id
WrittenName(id) ==
    IF hasOwn(JSONparse(cout.written.events).v, numberToString(id))
    THEN getOwn(JSONparse(cout.written.events).v, numberToString(id))
    ELSE Missing

\* C29: with omitSubsequentRequireds, loadOptimizedAnalytics decodes the csv
\* of an app into as many rows as were written, in the same order, each with
\* the user and the event (the name events.json gives to the event id) of
\* the row before the omission.
C29_RoundTrip ==
    (cout.op = "load" /\ cout.omit) =>
        /\ Len(cout.result) = Len(cout.rows)
        /\ \A i \in 1..Len(cout.result) :
              /\ cout.result[i].user = cout.rows[i].user
              /\ cout.result[i].id = WrittenName(cout.rows[i].event.id)

\* user 2 with one Search row, then user 10 with two Search rows: the event
\* id is written on the first row of each user and left out on the third row
C29_Witness ==
    /\ cout.op = "load"
    /\ cout.omit
    /\ Len(cout.result) = 3
    /\ cout.result[1].user = 2
    /\ cout.result[2].user = 10
    /\ cout.result[3].user = 10
    /\ \A i \in 1..3 : cout.result[i].id = JsStr(SearchEvent)
    /\ split(decompressString(cout.written.csv[1]), 10)[4][1] = 44
    /\ split(decompressString(cout.written.csv[1]), 10)[4][2] = 44

-----------------------------------------------------------------------------
(* The collection statistics (src/lib/collectionStats.ts lines 39-120) and *)
(* their reader (part_008).  A record is a row of the export as csv-parse  *)
(* returns it: an object of numbers, its timestamp a date.                 *)

\* 'collection', 'timestamp', 'id', 'entries', 't', 'stats'
CollectionKey == <<99, 111, 108, 108, 101, 99, 116, 105, 111, 110>>
TimestampKey == <<116, 105, 109, 101, 115, 116, 97, 109, 112>>
IdKey == <<105, 100>>
EntriesKey == <<101, 110, 116, 114, 105, 101, 115>>
TKey == <<116>>
StatsKey == <<115, 116, 97, 116, 115>>

\* 'covered', 'reviews', 'drafts', 'explained', 'total_entries', 'unlinked',
\* 'verify'
CoveredKey == <<99, 111, 118, 101, 114, 101, 100>>
ReviewsKey == <<114, 101, 118, 105, 101, 119, 115>>
DraftsKey == <<100, 114, 97, 102, 116, 115>>
ExplainedKey == <<101, 120, 112, 108, 97, 105, 110, 101, 100>>
TotalEntriesKey == <<116, 111, 116, 97, 108, 95, 101, 110, 116, 114, 105, 101, 115>>
UnlinkedKey == <<117, 110, 108, 105, 110, 107, 101, 100>>
VerifyKey == <<118, 101, 114, 105, 102, 121>>

\* lines 19-28
COMPARISON_KEYS ==
    <<CollectionKey, CoveredKey, ReviewsKey, DraftsKey, ExplainedKey, TotalEntriesKey,
      UnlinkedKey, VerifyKey>>

\* the records of a collection, in the order of the file
recordsOf(records, collection) ==
    SelectSeq(records, LAMBDA r : getOwn(r, CollectionKey) = JsNum(collection))

\* lines 66-76: the diff of a record against currentState, which holds for
\* every comparison key the value of the record before (line 73 updates it
\* wherever the two differ)
diffOf(currentState, record) ==
    <<[k |-> TimestampKey, v |-> getOwn(record, TimestampKey)]>>
        \o [i \in 1..Len(SelectSeq(COMPARISON_KEYS,
                                   LAMBDA key : getOwn(currentState, key) # getOwn(record, key))) |->
               [k |-> SelectSeq(COMPARISON_KEYS,
                                LAMBDA key : getOwn(currentState, key) # getOwn(record, key))[i],
                v |-> getOwn(record,
                             SelectSeq(COMPARISON_KEYS,
                                       LAMBDA key : getOwn(currentState, key) # getOwn(record, key))[i])]]

\* isChanged of lines 67-75
isChanged(currentState, record) ==
    \E i \in 1..Len(COMPARISON_KEYS) :
        getOwn(currentState, COMPARISON_KEYS[i]) # getOwn(record, COMPARISON_KEYS[i])

\* lines 53-84 for one collection: collectionToStats.get(collection)
statsOf(own) ==
    [n \in 1..Len(SelectSeq([i \in 1..Len(own) |-> i],
                            LAMBDA i : i = 1 \/ isChanged(own[i - 1], own[i]))) |->
        IF n = 1 THEN own[1]
        ELSE diffOf(own[SelectSeq([i \in 1..Len(own) |-> i],
                                  LAMBDA i : i = 1 \/ isChanged(own[i - 1], own[i]))[n] - 1],
                    own[SelectSeq([i \in 1..Len(own) |-> i],
                                  LAMBDA i : i = 1 \/ isChanged(own[i - 1], own[i]))[n]])]

\* lines 104-109: the compact entry of a stats entry
compactEntry(entry) ==
    JsObj(defineOwn(
        (IF hasOwn(entry, TotalEntriesKey) /\ IsTruthy(getOwn(entry, TotalEntriesKey))
         THEN defineOwn(SelectSeq(entry, LAMBDA p : p.k \notin {TimestampKey, TotalEntriesKey,
                                                               CollectionKey, IdKey}),
                        EntriesKey, getOwn(entry, TotalEntriesKey))
         ELSE SelectSeq(entry, LAMBDA p : p.k \notin {TimestampKey, TotalEntriesKey,
                                                     CollectionKey, IdKey})),
        TKey, JsNum(epochSeconds(getOwn(entry, TimestampKey)))))

\* the collections of the file, in the order they first appear
collectionsOf(records) ==
    [n \in 1..Len(firstPositions([i \in 1..Len(records) |-> getOwn(records[i], CollectionKey).v])) |->
        getOwn(records[firstPositions([i \in 1..Len(records) |->
                                          getOwn(records[i], CollectionKey).v])[n]],
               CollectionKey).v]

\* condenseCollectionStats(filePath): the result, which line 116 writes with
\* JSON.stringify.  The keys are those of the Map; an object lists them in
\* ascending order whatever the sort of line 101 gives
condenseCollectionStats(records) ==
    JsObj(<<[k |-> StatsKey,
             v |-> JsObj(fromEntries(<<>>,
                     [n \in 1..Len(collectionsOf(records)) |->
                         [k |-> numberToString(collectionsOf(records)[n]),
                          v |-> JsArr([e \in 1..Len(statsOf(recordsOf(records,
                                                       collectionsOf(records)[n]))) |->
                                          compactEntry(statsOf(recordsOf(
                                              records, collectionsOf(records)[n]))[e])])]]))]>>)

\* value || 0 of a property that may be missing
orZero(state, key) ==
    IF hasOwn(state, key) /\ IsTruthy(getOwn(state, key)) THEN getOwn(state, key).v ELSE 0

\* part_008 line 41: { ...currentState, ...entry }
RECURSIVE spread(_, _)
spread(currentState, entry) ==
    IF entry = <<>> THEN currentState
    ELSE spread(defineOwn(currentState, Head(entry).k, Head(entry).v), Tail(entry))

\* part_008 lines 44-54 (without the date)
processedEntry(currentState, entry) ==
    [covered |-> orZero(currentState, CoveredKey),
     reviews |-> orZero(currentState, ReviewsKey),
     drafts |-> orZero(currentState, DraftsKey),
     explained |-> orZero(currentState, ExplainedKey),
     unlinked |-> orZero(currentState, UnlinkedKey),
     verify |-> orZero(currentState, VerifyKey),
     entries |-> orZero(currentState, EntriesKey),
     t |-> getOwn(entry, TKey).v]

\* part_008 lines 36-55
RECURSIVE processStats(_, _)
processStats(currentState, rawStats) ==
    IF rawStats = <<>> THEN <<>>
    ELSE <<processedEntry(spread(currentState, Head(rawStats).v), Head(rawStats).v)>>
             \o processStats(spread(currentState, Head(rawStats).v), Tail(rawStats))

\* GET of part_008 for collectionId, allStats being the content of the file
GET(allStats, collectionId) ==
    IF \/ ~hasOwn(getOwn(allStats.v, StatsKey).v, collectionId)
       \/ getOwn(getOwn(allStats.v, StatsKey).v, collectionId).t # "arr"
       \/ getOwn(getOwn(allStats.v, StatsKey).v, collectionId).v = <<>>
    THEN [status |-> 404, timeSeries |-> <<>>]
    ELSE [status |-> 200,
          timeSeries |-> processStats(<<>>, getOwn(getOwn(allStats.v, StatsKey).v, collectionId).v)]

-----
(* SpecCollection: condenseCollectionStats applied once to an export of up *)
(* to MaxSnapshots records of two collections, and the reader applied to   *)
(* the file it wrote.                                                      *)

MaxSnapshots == 4

\* the i-th row of the export, taken on day i
Snapshot(i, collection, covered, reviews, drafts, explained, total_entries, unlinked, verify) ==
    <<[k |-> IdKey, v |-> JsNum(i)],
      [k |-> TimestampKey, v |-> [day |-> i]],
      [k |-> CollectionKey, v |-> JsNum(collection)],
      [k |-> CoveredKey, v |-> JsNum(covered)],
      [k |-> ReviewsKey, v |-> JsNum(reviews)],
      [k |-> DraftsKey, v |-> JsNum(drafts)],
      [k |-> ExplainedKey, v |-> JsNum(explained)],
      [k |-> TotalEntriesKey, v |-> JsNum(total_entries)],
      [k |-> UnlinkedKey, v |-> JsNum(unlinked)],
      [k |-> VerifyKey, v |-> JsNum(verify)]>>

\* collection, covered, reviews, drafts, explained, total_entries, unlinked,
\* verify
SnapshotPool ==
    <<<<2, 1, 1, 1, 1, 5, 1, 1>>,
      <<2, 1, 1, 1, 1, 0, 1, 1>>,
      <<2, 0, 1, 1, 1, 5, 1, 1>>,
      <<2, 1, 2, 3, 4, 6, 5, 0>>,
      <<10, 2, 0, 0, 0, 3, 0, 0>>,
      <<10, 2, 0, 0, 0, 0, 0, 0>>>>

Export(pick) ==
    [i \in 1..Len(pick) |->
        Snapshot(i, SnapshotPool[pick[i]][1], SnapshotPool[pick[i]][2], SnapshotPool[pick[i]][3],
                 SnapshotPool[pick[i]][4], SnapshotPool[pick[i]][5], SnapshotPool[pick[i]][6],
                 SnapshotPool[pick[i]][7], SnapshotPool[pick[i]][8])]

CollectionInit ==
    /\ KEY = NULL
    /\ env = Undefined
    /\ issued = <<>>
    /\ last = NoCall
    /\ \E pick \in Picks(SnapshotPool, MaxSnapshots) :
          cin = [kind |-> "export", records |-> Export(pick)]
    /\ cout = NoOutput

\* condenseCollectionStats(filePath)
CondenseCollectionStats ==
    /\ cout.op = "none"
    /\ cin.kind = "export"
    /\ cout' = [op |-> "condense", file |-> stringify(condenseCollectionStats(cin.records))]
    /\ UNCHANGED <<KEY, env, issued, last, cin>>

\* GET /collections/<collectionId> over the file written
GetCollection(collectionId) ==
    /\ cout.op = "condense"
    /\ cin.kind = "export"
    /\ cout' = [op |-> "get", file |-> cout.file, collectionId |-> collectionId,
                result |-> GET(JSONparse(cout.file), numberToString(collectionId))]
    /\ UNCHANGED <<KEY, env, issued, last, cin>>

CollectionNext ==
    \/ CondenseCollectionStats
    \/ \E collectionId \in {2, 7, 10} : GetCollection(collectionId)

SpecCollection == CollectionInit /\ [][CollectionNext]_vars

-----------------------------------------------------------------------------
(* The claim about the collection statistics. *)

TrackedKeys ==
    <<CoveredKey, ReviewsKey, DraftsKey, ExplainedKey, TotalEntriesKey, UnlinkedKey, VerifyKey>>

\* the snapshots of the collection that was asked for
Snapshots == recordsOf(cin.records, cout.collectionId)

\* the snapshots that change a tracked field, the first included
EmittedSnapshots ==
    SelectSeq([i \in 1..Len(Snapshots) |-> i],
              LAMBDA i : \/ i = 1
                         \/ \E k \in 1..Len(TrackedKeys) :
                               getOwn(Snapshots[i], TrackedKeys[k])
                                   # getOwn(Snapshots[i - 1], TrackedKeys[k]))

\* the replayed entry holds the tracked fields of the snapshot, entries apart
SameFields(entry, snapshot) ==
    /\ entry.covered = getOwn(snapshot, CoveredKey).v
    /\ entry.reviews = getOwn(snapshot, ReviewsKey).v
    /\ entry.drafts = getOwn(snapshot, DraftsKey).v
    /\ entry.explained = getOwn(snapshot, ExplainedKey).v
    /\ entry.unlinked = getOwn(snapshot, UnlinkedKey).v
    /\ entry.verify = getOwn(snapshot, VerifyKey).v
    /\ entry.t = epochSeconds(getOwn(snapshot, TimestampKey))

\* C27: replaying the change log of a collection as the reader does gives one
\* entry for every snapshot that changes a tracked field (and for the
\* first), none for the others, and each entry holds the values of all the
\* tracked fields of its snapshot, fields that change to 0 included.
C27_ReplayReproduces ==
    cout.op = "get" =>
        /\ Len(cout.result.timeSeries) = Len(EmittedSnapshots)
        /\ \A n \in 1..Len(EmittedSnapshots) :
              /\ SameFields(cout.result.timeSeries[n], Snapshots[EmittedSnapshots[n]])
              /\ cout.result.timeSeries[n].entries
                     = getOwn(Snapshots[EmittedSnapshots[n]], TotalEntriesKey).v

\* the total_entries of the latest snapshot up to the i-th that is not 0, or 0
LastEntries(i) ==
    IF \E j \in 1..i : getOwn(Snapshots[j], TotalEntriesKey).v # 0
    THEN getOwn(Snapshots[CHOOSE j \in 1..i :
                              /\ getOwn(Snapshots[j], TotalEntriesKey).v # 0
                              /\ \A m \in (j + 1)..i :
                                    getOwn(Snapshots[m], TotalEntriesKey).v = 0],
                TotalEntriesKey).v
    ELSE 0

\* what the code gives: every field but entries is reproduced, and entries
\* is the latest total_entries that was not 0
Collection_ReplayKeepsEntries ==
    cout.op = "get" =>
        /\ Len(cout.result.timeSeries) = Len(EmittedSnapshots)
        /\ \A n \in 1..Len(EmittedSnapshots) :
              /\ SameFields(cout.result.timeSeries[n], Snapshots[EmittedSnapshots[n]])
              /\ cout.result.timeSeries[n].entries = LastEntries(EmittedSnapshots[n])

=============================================================================
